---------------------------- MODULE Spec2Model ----------------------------
(***************************************************************************)
(* Conversation state and checkpoint engine of the chat agent.             *)
(*                                                                         *)
(*   src/app/checkpoint_manager.py   CheckpointManager (the store)         *)
(*   src/app/agent.py                ChatAgent (turns, save, restore)      *)
(*                                                                         *)
(* Python objects that the code shares or copies (the state dicts handed   *)
(* to and returned by the store) live in `heap`, addressed by reference,   *)
(* so that copy.deepcopy and plain aliasing are different things.          *)
(***************************************************************************)
EXTENDS Integers, Sequences, FiniteSets, TLC

(***************************************************************************)
(* Bounds of the exploration.                                              *)
(***************************************************************************)
\* longest checkpoint_order explored
MaxCheckpoints == 3
\* longest message list of a caller's state dict explored (store level)
MaxCallerMessages == 2
\* longest live message sequence at which a new turn is still started
MaxMessages == 3
\* most tool rounds of one turn that are explored
MaxToolRounds == 1
\* longest checkpoint_order at which the conversation is still saved
MaxConversationCheckpoints == 1
\* messages in the conversation of a session of the registry
MaxSessionMessages == 2
\* checkpoints in the store of a session of the registry
MaxSessionCheckpoints == 1
\* the clock of the registry runs from 0 to MaxTime
MaxTime == 3
\* the clock while requests run concurrently
MaxRegistryTime == 2
\* SessionManager(session_timeout_minutes=60), in ticks of the clock
session_timeout == 1

(***************************************************************************)
(* Input domains.                                                          *)
(***************************************************************************)
\* str(uuid.uuid4())[:8]: eight hexadecimal digits drawn at random
IdList == <<"3f2a9c01", "b7e4d210">>
CheckpointIds == {IdList[i] : i \in 1..Len(IdList)}
\* texts a user sends
UserTexts == {"Hello"}
\* (name, description) arguments of a save; None is the missing name
None == "None"
SaveArgs == {<<None, "">>, <<"milestone", "note">>}
\* the arguments with which the conversation is saved
ConversationSaveArgs == {<<None, "">>}
Refs == 1..(Cardinality(CheckpointIds) + 3)
\* session ids, str(uuid.uuid4())[:8] as well
SessionIdList == <<"9d41e7aa", "c05b3f62">>
SessionIds == {SessionIdList[i] : i \in 1..Len(SessionIdList)}
\* references to ChatAgent objects
AgentRefs == 1..(Cardinality(SessionIds) + 1)

VARIABLES
    checkpoints,       \* CheckpointManager.checkpoints: id -> Checkpoint
    checkpoint_order,  \* CheckpointManager.checkpoint_order
    heap,              \* reference -> state dict {"messages": [...]}
    held,              \* the state dict a direct caller of the store holds
    current_state,     \* ChatAgent.current_state
    pc,                \* node of the graph the running turn waits in, or "idle"
    graph_state,       \* the state the running graph works on
    outcome,           \* the last call that finished: what it was, how it ended
    saved_live,        \* history: id -> messages that were live at that save
    turn,              \* history of the running turn
    calls,             \* thread -> the store call it is in the middle of
    agents,            \* SessionManager.agents: session id -> ChatAgent
    last_access,       \* SessionManager.last_access: session id -> time
    instances,         \* reference -> the ChatAgent object behind it
    now,               \* datetime.now()
    lock,              \* SessionManager.lock: "free" or the tab that holds it
    requests,          \* tab -> the registry call its request is in
    session_id         \* tab -> the id in the page's "session-id" store

vars == <<checkpoints, checkpoint_order, heap, held, current_state, pc,
          graph_state, outcome, saved_live, turn, calls, agents,
          last_access, instances, now, lock, requests, session_id>>

storeVars == <<checkpoints, checkpoint_order, heap, held, saved_live>>
agentVars == <<current_state, pc, graph_state, turn>>
sessionVars ==
    <<agents, last_access, instances, now, lock, requests, session_id>>

(***************************************************************************)
(* Generic helpers.                                                        *)
(***************************************************************************)
Range(s) == {s[i] : i \in 1..Len(s)}

Min(S) == CHOOSE x \in S : \A y \in S : x <= y

\* list.index(x): position of the first occurrence (1-based), 0 when absent
IndexOf(s, x) ==
    IF x \in Range(s) THEN Min({i \in 1..Len(s) : s[i] = x}) ELSE 0

\* (mutation of RemoveFirst) the entries behind the first x go as well
RemoveFrom(s, x) ==
    IF IndexOf(s, x) = 0 THEN s ELSE SubSeq(s, 1, IndexOf(s, x) - 1)

\* the list without its first occurrence of x (list.remove)
RemoveFirst(s, x) ==
    LET i == IndexOf(s, x)
    IN  IF i = 0 THEN s
        ELSE SubSeq(s, 1, i - 1) \o SubSeq(s, i + 1, Len(s))

\* f without key k (del f[k])
DelKey(f, k) == [x \in (DOMAIN f) \ {k} |-> f[x]]

\* f with key k bound to v (f[k] = v)
SetKey(f, k, v) == [x \in (DOMAIN f) \cup {k} |-> IF x = k THEN v ELSE f[x]]

EmptyMap == [x \in {} |-> 0]

(***************************************************************************)
(* Messages.  A message object carries its class as `type`; only an        *)
(* AIMessage has tool_calls and only a ToolMessage has tool_call_id.       *)
(***************************************************************************)
HumanMessage(c) ==
    [type |-> "HumanMessage", content |-> c, additional_kwargs |-> <<>>]

AIMessage(c, kw, tc) ==
    [type |-> "AIMessage", content |-> c, additional_kwargs |-> kw,
     tool_calls |-> tc]

ToolMessage(c, call) ==
    [type |-> "ToolMessage", content |-> c, additional_kwargs |-> <<>>,
     tool_call_id |-> call]

SystemMessage(c) ==
    [type |-> "SystemMessage", content |-> c, additional_kwargs |-> <<>>]

\* responses of the language model: a final answer, or a request for a tool
FinalResponses == {AIMessage("Hi there", <<>>, <<>>)}
ToolRequests == {AIMessage("", <<"tool_calls">>, <<"tavily_search">>)}

\* (mutation of ToolResults) the results of the tools are not appended
ToolResultsDropped(ai) == <<>>

\* what ToolNode appends for an assistant message: one ToolMessage per call
ToolResults(ai) ==
    [i \in 1..Len(ai.tool_calls) |-> ToolMessage("results", ai.tool_calls[i])]

\* agent.py:231-239 and 274-282: one message as a serializable dict
SerializeMessage(msg) ==
    [type |-> msg.type,
     content |-> msg.content,
     additional_kwargs |-> msg.additional_kwargs,
     tool_calls |-> IF "tool_calls" \in DOMAIN msg THEN msg.tool_calls
                    ELSE <<>>]

SerializeMessages(msgs) == [i \in 1..Len(msgs) |-> SerializeMessage(msgs[i])]

(***************************************************************************)
(* The heap of state dicts.                                                *)
(***************************************************************************)
NewRef(h) == Min(Refs \ DOMAIN h)

\* the references the program still holds: the caller's, then the stored
\* checkpoints' in the order of IdList
Roots(cps, hd) ==
    LET ids == SelectSeq(IdList, LAMBDA id : id \in DOMAIN cps)
    IN  <<hd>> \o [i \in 1..Len(ids) |-> cps[ids[i]].state]

\* Objects nothing refers to are gone, and the objects left are numbered in
\* the order of Roots: which number names an object is not observable.
Collect(h, cps, hd) ==
    LET roots == Roots(cps, hd)
        first(r) == IndexOf(roots, r)
        num(r) == Cardinality({roots[j] : j \in 1..first(r)})
        obj(n) == CHOOSE r \in Range(roots) : num(r) = n
    IN  [heap |-> [n \in {num(r) : r \in Range(roots)} |-> h[obj(n)]],
         cps |-> [id \in DOMAIN cps |-> [cps[id] EXCEPT !.state = num(@)]],
         held |-> num(hd)]

\* (mutation of DeepCopy) the same object handed on: saved_state = state
ShareState(h, r) == [heap |-> h, ref |-> r]

\* copy.deepcopy(state): a new object with equal content
DeepCopy(h, r) ==
    LET n == NewRef(h)
    IN  [heap |-> SetKey(h, n, h[r]), ref |-> n]


(***************************************************************************)
(* CheckpointManager (src/app/checkpoint_manager.py).  Each operation is a *)
(* function of the store (cps, order), the heap and its arguments, and     *)
(* returns the new store, the new heap and the value returned.  The        *)
(* timestamp field of a Checkpoint is not modelled.                        *)
(***************************************************************************)
\* (mutation of DefaultName) the new checkpoint is not counted
CountBefore(cps) == "Checkpoint " \o ToString(Cardinality(DOMAIN cps))

\* f"Checkpoint {len(self.checkpoints) + 1}"
DefaultName(cps) == "Checkpoint " \o ToString(Cardinality(DOMAIN cps) + 1)

\* save_checkpoint(state, name, description), with checkpoint_id the value
\* of str(uuid.uuid4())[:8]
save_checkpoint(cps, order, h, state, name, description, checkpoint_id) ==
    LET message_count == Len(h[state].messages)
        given == IF name = None \/ name = "" THEN DefaultName(cps) ELSE name
        saved_state == DeepCopy(h, state)
        checkpoint == [id |-> checkpoint_id,
                       name |-> given,
                       state |-> saved_state.ref,
                       message_count |-> message_count,
                       description |-> description]
    IN  [cps |-> SetKey(cps, checkpoint_id, checkpoint),
         order |-> Append(order, checkpoint_id),
         heap |-> saved_state.heap,
         ret |-> checkpoint]

\* list_checkpoints(): the summaries, in the order of checkpoint_order
Summary(cp) ==
    [id |-> cp.id, name |-> cp.name, message_count |-> cp.message_count,
     description |-> cp.description]

RECURSIVE list_of(_, _)
list_of(cps, order) ==
    IF order = <<>> THEN <<>>
    ELSE IF Head(order) \in DOMAIN cps
         THEN <<Summary(cps[Head(order)])>> \o list_of(cps, Tail(order))
         ELSE list_of(cps, Tail(order))

list_checkpoints == list_of(checkpoints, checkpoint_order)

\* get_checkpoint(checkpoint_id)
get_checkpoint(checkpoint_id) ==
    IF checkpoint_id \in DOMAIN checkpoints THEN checkpoints[checkpoint_id]
    ELSE None

\* restore_checkpoint: the ids the loop at lines 148-151 deletes
checkpoints_to_remove(order, index) == SubSeq(order, index + 1, Len(order))

\* (mutation of truncate_order) only the newest id is dropped
truncate_newest(order, index) == SubSeq(order, 1, Len(order) - 1)

\* restore_checkpoint: line 154
truncate_order(order, index) == SubSeq(order, 1, index)

\* (mutation of restored_state) the saved state dict itself is returned
restored_shared(h, state) == [heap |-> h, ref |-> state]

\* restore_checkpoint: line 157, return copy.deepcopy(checkpoint.state)
restored_state(h, state) == DeepCopy(h, state)

\* restore_checkpoint(checkpoint_id); found = FALSE is the return of None
restore_checkpoint(cps, order, h, checkpoint_id) ==
    IF checkpoint_id \notin DOMAIN cps
    THEN [found |-> FALSE, cps |-> cps, order |-> order, heap |-> h, ret |-> 0]
    ELSE
    LET checkpoint == cps[checkpoint_id]
        index == IndexOf(order, checkpoint_id)
    IN  IF index = 0
        THEN [found |-> FALSE, cps |-> cps, order |-> order, heap |-> h,
              ret |-> 0]
        ELSE
        LET gone == Range(checkpoints_to_remove(order, index))
            kept == [id \in (DOMAIN cps) \ gone |-> cps[id]]
            copy == restored_state(h, checkpoint.state)
        IN  [found |-> TRUE,
             cps |-> kept,
             order |-> truncate_order(order, index),
             heap |-> copy.heap,
             ret |-> copy.ref]

\* (mutation of delete_checkpoint) the check of line 169 left out
delete_unchecked(cps, order, checkpoint_id) ==
    [ret |-> "True", cps |-> DelKey(cps, checkpoint_id),
     order |-> RemoveFirst(order, checkpoint_id)]

\* delete_checkpoint(checkpoint_id); list.remove raises ValueError when the
\* id is not in the list
delete_checkpoint(cps, order, checkpoint_id) ==
    IF checkpoint_id \notin DOMAIN cps
    THEN [ret |-> "False", cps |-> cps, order |-> order]
    ELSE IF checkpoint_id \notin Range(order)
         THEN [ret |-> "ValueError", cps |-> DelKey(cps, checkpoint_id),
               order |-> order]
         ELSE [ret |-> "True", cps |-> DelKey(cps, checkpoint_id),
               order |-> RemoveFirst(order, checkpoint_id)]

\* get_latest_checkpoint(): self.checkpoints.get(self.checkpoint_order[-1])
get_latest_checkpoint ==
    IF checkpoint_order = <<>> THEN None
    ELSE get_checkpoint(checkpoint_order[Len(checkpoint_order)])

\* the history of saves, kept for the checkpoints still in the map
KeepHistory(hist, cps) == [id \in (DOMAIN hist) \cap (DOMAIN cps) |-> hist[id]]

Result(op, ret) == [op |-> op, ret |-> ret]

(***************************************************************************)
(* A direct caller of the store: it owns a state dict (`held`), changes it *)
(* in place, hands it to save_checkpoint and installs what                 *)
(* restore_checkpoint returns as its new state dict.                       *)
(***************************************************************************)
CallerMessages == {SerializeMessage(HumanMessage(u)) : u \in UserTexts}

\* state["messages"].append(m)
CallerAppend(m) ==
    /\ pc = "idle"
    /\ Len(heap[held].messages) < MaxCallerMessages
    /\ heap' = [heap EXCEPT ![held].messages = Append(@, m)]
    /\ outcome' = Result("append", "None")
    /\ UNCHANGED <<checkpoints, checkpoint_order, held, saved_live, agentVars>>
    /\ UNCHANGED calls
    /\ UNCHANGED sessionVars

\* state["messages"].pop()
CallerPop ==
    /\ pc = "idle"
    /\ heap[held].messages # <<>>
    /\ heap' = [heap EXCEPT ![held].messages = SubSeq(@, 1, Len(@) - 1)]
    /\ outcome' = Result("pop", "None")
    /\ UNCHANGED <<checkpoints, checkpoint_order, held, saved_live, agentVars>>
    /\ UNCHANGED calls
    /\ UNCHANGED sessionVars

\* checkpoint_manager.save_checkpoint(state, name, description)
SaveCheckpoint(args, checkpoint_id) ==
    /\ pc = "idle"
    /\ Len(checkpoint_order) < MaxCheckpoints
    /\ LET r == save_checkpoint(checkpoints, checkpoint_order, heap, held,
                                args[1], args[2], checkpoint_id)
           c == Collect(r.heap, r.cps, held)
       IN  /\ checkpoints' = c.cps
           /\ checkpoint_order' = r.order
           /\ heap' = c.heap
           /\ held' = c.held
           /\ saved_live' =
                  SetKey(saved_live, checkpoint_id, heap[held].messages)
           /\ outcome' = Result("save_checkpoint", "Checkpoint")
    /\ UNCHANGED agentVars
    /\ UNCHANGED calls
    /\ UNCHANGED sessionVars

\* state = checkpoint_manager.restore_checkpoint(checkpoint_id); a caller
\* that gets None keeps its state dict
RestoreCheckpoint(checkpoint_id) ==
    /\ pc = "idle"
    /\ LET r == restore_checkpoint(checkpoints, checkpoint_order, heap,
                                   checkpoint_id)
           c == Collect(r.heap, r.cps, IF r.found THEN r.ret ELSE held)
       IN  /\ checkpoints' = c.cps
           /\ checkpoint_order' = r.order
           /\ heap' = c.heap
           /\ held' = c.held
           /\ saved_live' = KeepHistory(saved_live, r.cps)
           /\ outcome' = Result("restore_checkpoint",
                                IF r.found THEN checkpoint_id ELSE None)
    /\ UNCHANGED agentVars
    /\ UNCHANGED calls
    /\ UNCHANGED sessionVars

\* checkpoint_manager.delete_checkpoint(checkpoint_id)
DeleteCheckpoint(checkpoint_id) ==
    /\ pc = "idle"
    /\ LET r == delete_checkpoint(checkpoints, checkpoint_order, checkpoint_id)
           c == Collect(heap, r.cps, held)
       IN  /\ checkpoints' = c.cps
           /\ checkpoint_order' = r.order
           /\ heap' = c.heap
           /\ held' = c.held
           /\ saved_live' = KeepHistory(saved_live, r.cps)
           /\ outcome' = Result("delete_checkpoint", r.ret)
    /\ UNCHANGED agentVars
    /\ UNCHANGED calls
    /\ UNCHANGED sessionVars

\* checkpoint_manager.clear_all()
ClearAll ==
    /\ pc = "idle"
    /\ LET c == Collect(heap, EmptyMap, held)
       IN  /\ checkpoints' = c.cps
           /\ heap' = c.heap
           /\ held' = c.held
    /\ checkpoint_order' = <<>>
    /\ saved_live' = EmptyMap
    /\ outcome' = Result("clear_all", "None")
    /\ UNCHANGED agentVars
    /\ UNCHANGED calls
    /\ UNCHANGED sessionVars

(***************************************************************************)
(* Initial state: CheckpointManager.__init__ and ChatAgent.__init__; the   *)
(* direct caller starts with an empty state dict.                          *)
(***************************************************************************)
InitialState ==
    [messages |-> <<>>,
     should_auto_checkpoint |-> FALSE,
     auto_checkpoint_name |-> "",
     auto_checkpoint_reason |-> ""]

NoTurn == [running |-> FALSE]

\* no graph is running
NoGraph == [messages |-> <<>>]

\* the threads that call into one store, and a thread that is in no call
Threads == {"restore", "other"}
Idle == [op |-> "idle"]
NoCalls == [t \in Threads |-> Idle]
\* the browser tabs; each request of a tab runs in a thread of the server
Tabs == {"tab1", "tab2"}
NoRequests == [t \in Tabs |-> Idle]
NoSession == [t \in Tabs |-> None]

Init ==
    /\ checkpoints = EmptyMap
    /\ checkpoint_order = <<>>
    /\ heap = [r \in {1} |-> [messages |-> <<>>]]
    /\ held = 1
    /\ current_state = InitialState
    /\ pc = "idle"
    /\ graph_state = NoGraph
    /\ outcome = Result("init", "None")
    /\ saved_live = EmptyMap
    /\ turn = NoTurn
    /\ calls = NoCalls
    /\ agents = EmptyMap
    /\ last_access = EmptyMap
    /\ instances = EmptyMap
    /\ now = 0
    /\ lock = "free"
    /\ requests = NoRequests
    /\ session_id = NoSession

NextStore ==
    \/ \E m \in CallerMessages : CallerAppend(m)
    \/ CallerPop
    \/ \E args \in SaveArgs, id \in CheckpointIds : SaveCheckpoint(args, id)
    \/ \E id \in CheckpointIds : RestoreCheckpoint(id)
    \/ \E id \in CheckpointIds : DeleteCheckpoint(id)
    \/ ClearAll

SpecStore == Init /\ [][NextStore]_vars


(***************************************************************************)
(* Two threads in one store.  CheckpointManager has no lock, and the       *)
(* server answers each request in a thread of its own: thread "restore"    *)
(* runs restore_checkpoint while thread "other" runs save_checkpoint or    *)
(* list_checkpoints.  A step is one statement that reads or writes         *)
(* self.checkpoints or self.checkpoint_order, with the local computation   *)
(* before it.  The ids drawn here are not in use, so that what is seen is  *)
(* the interleaving alone.                                                 *)
(***************************************************************************)
\* restore_checkpoint, lines 136-148: not found, or index and the slice
BeginRestore(checkpoint_id) ==
    /\ pc = "idle"
    /\ calls["restore"].op = "idle"
    /\ LET index == IndexOf(checkpoint_order, checkpoint_id)
       IN  IF checkpoint_id \notin DOMAIN checkpoints \/ index = 0
           THEN /\ outcome' = Result("restore_checkpoint", None)
                /\ UNCHANGED calls
           ELSE /\ calls' =
                       [calls EXCEPT
                           !["restore"] =
                               [op |-> "restore",
                                checkpoint_id |-> checkpoint_id,
                                index |-> index,
                                checkpoints_to_remove |->
                                    checkpoints_to_remove(checkpoint_order,
                                                          index)]]
                /\ UNCHANGED outcome
    /\ UNCHANGED <<storeVars, agentVars>>
    /\ UNCHANGED sessionVars

\* restore_checkpoint, lines 149-151: one round of the loop
RestoreDelete ==
    /\ calls["restore"].op = "restore"
    /\ calls["restore"].checkpoints_to_remove # <<>>
    /\ LET cp_id == Head(calls["restore"].checkpoints_to_remove)
           c == Collect(heap, DelKey(checkpoints, cp_id), held)
       IN  /\ checkpoints' = c.cps
           /\ heap' = c.heap
           /\ held' = c.held
           /\ saved_live' = KeepHistory(saved_live, c.cps)
    /\ calls' = [calls EXCEPT !["restore"].checkpoints_to_remove = Tail(@)]
    /\ UNCHANGED <<checkpoint_order, outcome, agentVars>>
    /\ UNCHANGED sessionVars

\* restore_checkpoint, lines 154-157: self.checkpoint_order is bound to a
\* new list (a list the other thread iterates stays as it was), and the
\* copy of the state is returned
RestoreTruncate ==
    /\ calls["restore"].op = "restore"
    /\ calls["restore"].checkpoints_to_remove = <<>>
    /\ LET checkpoint == checkpoints[calls["restore"].checkpoint_id]
           copy == DeepCopy(heap, checkpoint.state)
           c == Collect(copy.heap, checkpoints, copy.ref)
       IN  /\ checkpoints' = c.cps
           /\ heap' = c.heap
           /\ held' = c.held
    /\ checkpoint_order' =
           truncate_order(checkpoint_order, calls["restore"].index)
    /\ calls' =
           [t \in Threads |->
               IF t = "restore" THEN Idle
               ELSE IF calls[t].op = "list" /\ calls[t].shared
                    THEN [calls[t] EXCEPT !.shared = FALSE,
                                          !.items = checkpoint_order]
                    ELSE calls[t]]
    /\ outcome' = Result("restore_checkpoint", calls["restore"].checkpoint_id)
    /\ UNCHANGED <<saved_live, agentVars>>
    /\ UNCHANGED sessionVars

\* save_checkpoint, lines 63-86: the checkpoint is built and put in the map
BeginSave(args, checkpoint_id) ==
    /\ pc = "idle"
    /\ calls["other"].op = "idle"
    /\ Len(checkpoint_order) < MaxCheckpoints
    /\ checkpoint_id \notin DOMAIN checkpoints
    /\ checkpoint_id \notin Range(checkpoint_order)
    /\ LET r == save_checkpoint(checkpoints, checkpoint_order, heap, held,
                                args[1], args[2], checkpoint_id)
           c == Collect(r.heap, r.cps, held)
       IN  /\ checkpoints' = c.cps
           /\ heap' = c.heap
           /\ held' = c.held
           /\ saved_live' =
                  SetKey(saved_live, checkpoint_id, heap[held].messages)
    /\ calls' = [calls EXCEPT
                    !["other"] = [op |-> "save",
                                  checkpoint_id |-> checkpoint_id]]
    /\ UNCHANGED <<checkpoint_order, outcome, agentVars>>
    /\ UNCHANGED sessionVars

\* save_checkpoint, lines 87-89: the id is appended to the order list
SaveAppend ==
    /\ calls["other"].op = "save"
    /\ checkpoint_order' =
           Append(checkpoint_order, calls["other"].checkpoint_id)
    /\ calls' = [calls EXCEPT !["other"] = Idle]
    /\ outcome' = Result("save_checkpoint", "Checkpoint")
    /\ UNCHANGED <<checkpoints, heap, held, saved_live, agentVars>>
    /\ UNCHANGED sessionVars

\* list_checkpoints, lines 98-99: the loop starts on self.checkpoint_order
BeginList ==
    /\ pc = "idle"
    /\ calls["other"].op = "idle"
    /\ calls' = [calls EXCEPT
                    !["other"] = [op |-> "list", shared |-> TRUE,
                                  items |-> <<>>, i |-> 1, result |-> <<>>,
                                  missing |-> FALSE]]
    /\ UNCHANGED <<storeVars, agentVars, outcome>>
    /\ UNCHANGED sessionVars

\* the list object the loop of list_checkpoints iterates
Iterated(call) == IF call.shared THEN checkpoint_order ELSE call.items

\* list_checkpoints, lines 99-108: one round of the loop
ListStep ==
    /\ calls["other"].op = "list"
    /\ calls["other"].i <= Len(Iterated(calls["other"]))
    /\ LET cp_id == Iterated(calls["other"])[calls["other"].i]
       IN  calls' =
               [calls EXCEPT
                   !["other"].i = @ + 1,
                   !["other"].result =
                       IF cp_id \in DOMAIN checkpoints
                       THEN Append(@, Summary(checkpoints[cp_id])) ELSE @,
                   !["other"].missing =
                       @ \/ cp_id \notin DOMAIN checkpoints]
    /\ UNCHANGED <<storeVars, agentVars, outcome>>
    /\ UNCHANGED sessionVars

\* list_checkpoints, line 109
ListReturn ==
    /\ calls["other"].op = "list"
    /\ calls["other"].i > Len(Iterated(calls["other"]))
    /\ calls' = [calls EXCEPT !["other"] = Idle]
    /\ outcome' = Result("list_checkpoints", "list")
    /\ UNCHANGED <<storeVars, agentVars>>
    /\ UNCHANGED sessionVars

NextThreads ==
    \/ \E m \in CallerMessages : CallerAppend(m)
    \/ \E id \in CheckpointIds : BeginRestore(id)
    \/ RestoreDelete
    \/ RestoreTruncate
    \/ \E args \in SaveArgs, id \in CheckpointIds : BeginSave(args, id)
    \/ SaveAppend
    \/ BeginList
    \/ ListStep
    \/ ListReturn

SpecThreads == Init /\ [][NextThreads]_vars


(***************************************************************************)
(* ChatAgent (src/app/agent.py).                                           *)
(***************************************************************************)
\* dict.get(key, default)
Get(d, key, default) == IF key \in DOMAIN d THEN d[key] ELSE default

\* the parameters save_checkpoint declares besides self
SaveCheckpointParameters == {"state", "name", "description"}

\* the arguments ChatAgent passes: the state, and these keywords
AgentSaveKeywords == {"name", "description", "created_by"}

\* a call with a keyword the function does not declare raises TypeError
CallBinds(keywords, parameters) == keywords \subseteq parameters

\* restore_checkpoint, lines 321-335: the messages rebuilt from the dicts
RECURSIVE Reconstruct(_)
Reconstruct(dicts) ==
    IF dicts = <<>> THEN <<>>
    ELSE LET msg_data == Head(dicts)
             rest == Reconstruct(Tail(dicts))
         IN  CASE msg_data.type = "HumanMessage" ->
                    <<HumanMessage(msg_data.content)>> \o rest
               [] msg_data.type = "AIMessage" ->
                    <<AIMessage(msg_data.content, msg_data.additional_kwargs,
                                <<>>)>> \o rest
               [] msg_data.type = "SystemMessage" ->
                    <<SystemMessage(msg_data.content)>> \o rest
               [] OTHER -> rest

\* (mutation of should_continue) every response ends the loop
always_judge(state) == "checkpoint_judge"

\* _should_continue(state)
should_continue(state) ==
    LET last_message == state.messages[Len(state.messages)]
    IN  IF "tool_calls" \in DOMAIN last_message
           /\ last_message.tool_calls # <<>>
        THEN "tools"
        ELSE "checkpoint_judge"

\* the decisions the judge (CheckpointDecision) may return
JudgeDecisions ==
    {[should_save |-> TRUE, reason |-> "task completed",
      suggested_name |-> "Solved it"],
     [should_save |-> FALSE, reason |-> "small talk",
      suggested_name |-> "unused"]}

\* (mutation of judge_update) the node leaves the flag alone when the judge
\* says no
judge_update_on_save(decision) ==
    IF decision.should_save
    THEN [should_auto_checkpoint |-> TRUE,
          auto_checkpoint_name |-> decision.suggested_name,
          auto_checkpoint_reason |-> decision.reason]
    ELSE [auto_checkpoint_reason |-> decision.reason]

\* _judge_checkpoint, lines 136-140: what the node writes into the state
judge_update(decision) ==
    [should_auto_checkpoint |-> decision.should_save,
     auto_checkpoint_name |->
         IF decision.should_save THEN decision.suggested_name ELSE "",
     auto_checkpoint_reason |-> decision.reason]

\* a graph state with a node's update merged in (the flag channels)
Merge(state, update) ==
    [k \in (DOMAIN state) \cup (DOMAIN update) |->
        IF k \in DOMAIN update THEN update[k] ELSE state[k]]

\* chat(), lines 199-202: the user message is put into current_state, and
\* graph.invoke starts the graph at its entry point, "agent"
ChatStarted(user_message) ==
    /\ pc = "idle"
    /\ current_state' =
           [current_state EXCEPT
               !.messages = Append(@, HumanMessage(user_message))]
    /\ graph_state' = current_state'
    /\ pc' = "agent"
    /\ turn' = [running |-> TRUE, before |-> current_state.messages,
                rounds |-> 0, judged |-> 0, beyond |-> FALSE]
    /\ outcome' = Result("chat", "running")
    /\ UNCHANGED storeVars
    /\ UNCHANGED calls
    /\ UNCHANGED sessionVars

\* the turns that are followed: those of a conversation that is short
ChatStart(user_message) ==
    /\ Len(current_state.messages) + 2 <= MaxMessages
    /\ ChatStarted(user_message)

\* node "agent" (_call_model) returns the model's response; the conditional
\* edge (_should_continue) picks the next node.  The model may ask for a
\* tool in every response and nothing in the graph counts the rounds.  The
\* message list is followed for MaxToolRounds rounds; a turn that goes
\* beyond them is followed only around the loop (turn.beyond): its list
\* stops growing, the latest response standing in its last place, and it
\* is not followed to its end.
\* self.system_prompt, whatever text _get_system_prompt got
system_prompt == "system prompt"

\* _call_model, lines 144-148: the list handed to the model
model_input(messages) ==
    IF messages = <<>> \/ messages[1].type # "SystemMessage"
    THEN <<SystemMessage(system_prompt)>> \o messages
    ELSE messages

\* (mutation of model_update) the prompt is returned with the response
model_update_with_prompt(response) ==
    <<SystemMessage(system_prompt), response>>

\* _call_model, line 155: return {"messages": [response]}
model_update(response) == <<response>>

\* get_conversation_history(): roles and contents, system messages skipped
get_conversation_history(messages) ==
    LET shown == SelectSeq(messages,
                           LAMBDA msg : msg.type \in {"HumanMessage",
                                                      "AIMessage"})
    IN  [i \in 1..Len(shown) |->
            [role |-> IF shown[i].type = "HumanMessage" THEN "user"
                      ELSE "assistant",
             content |-> shown[i].content]]

CallModel(response) ==
    /\ pc = "agent"
    /\ turn.beyond => response \in ToolRequests
    /\ graph_state' =
           [graph_state EXCEPT
               !.messages = IF turn.beyond
                            THEN [@ EXCEPT ![Len(@)] = response]
                            ELSE @ \o model_update(response)]
    /\ pc' = should_continue(graph_state')
    /\ turn' = [turn EXCEPT
                  !.judged = IF pc' = "checkpoint_judge" THEN @ + 1 ELSE @,
                  !.beyond = @ \/ (/\ response \in ToolRequests
                                   /\ turn.rounds = MaxToolRounds)]
    /\ UNCHANGED <<current_state, outcome, storeVars>>
    /\ UNCHANGED calls
    /\ UNCHANGED sessionVars

\* node "tools" (ToolNode) appends the tool results; edge tools -> agent
CallTools ==
    /\ pc = "tools"
    /\ graph_state' =
           IF turn.beyond THEN graph_state
           ELSE [graph_state EXCEPT
                    !.messages =
                        @ \o ToolResults(graph_state.messages[Len(@)])]
    /\ pc' = "agent"
    /\ turn' = [turn EXCEPT !.rounds = IF turn.beyond THEN @ ELSE @ + 1]
    /\ UNCHANGED <<current_state, outcome, storeVars>>
    /\ UNCHANGED calls
    /\ UNCHANGED sessionVars

\* The model or a tool raises: nothing in the graph or in chat() catches
\* it, so chat() ends at line 205 by raising.
CollaboratorFails ==
    /\ pc \in {"agent", "tools"}
    /\ pc' = "idle"
    /\ turn' = NoTurn
    /\ outcome' = Result("chat", "CollaboratorError")
    /\ graph_state' = NoGraph
    /\ UNCHANGED <<current_state, storeVars>>
    /\ UNCHANGED calls
    /\ UNCHANGED sessionVars

\* The judge raises in node "checkpoint_judge": neither
\* should_create_checkpoint nor _judge_checkpoint nor chat() catches it.
JudgeFails ==
    /\ pc = "checkpoint_judge"
    /\ pc' = "idle"
    /\ turn' = NoTurn
    /\ outcome' = Result("chat", "JudgeError")
    /\ graph_state' = NoGraph
    /\ UNCHANGED <<current_state, storeVars>>
    /\ UNCHANGED calls
    /\ UNCHANGED sessionVars

\* _create_auto_checkpoint(): the store after it, and how it ends
create_auto_checkpoint(state, checkpoint_id) ==
    IF CallBinds(AgentSaveKeywords, SaveCheckpointParameters)
    THEN LET t == NewRef(heap)
             h == SetKey(heap, t,
                         [messages |-> SerializeMessages(state.messages)])
             r == save_checkpoint(checkpoints, checkpoint_order, h, t,
                       Get(state, "auto_checkpoint_name", "Auto-saved"),
                       Get(state, "auto_checkpoint_reason",
                           "AI recommended checkpoint"),
                       checkpoint_id)
         IN  [raised |-> FALSE, cps |-> r.cps, order |-> r.order,
              heap |-> r.heap]
    ELSE [raised |-> TRUE, cps |-> checkpoints, order |-> checkpoint_order,
          heap |-> heap]

\* _judge_checkpoint, lines 124-125: get_latest_checkpoint() is
\* self.checkpoints.get(self.checkpoint_order[-1]), None when the order list
\* is empty or its last id is not in the map
last_checkpoint_count ==
    IF checkpoint_order = <<>> THEN 0
    ELSE LET latest == checkpoint_order[Len(checkpoint_order)]
         IN  IF latest \in DOMAIN checkpoints
             THEN checkpoints[latest].message_count
             ELSE 0

\* what _judge_checkpoint hands to should_create_checkpoint (lines 128-132)
\* and the difference that method puts into its prompt (line 106)
judge_request(state) ==
    [message_count |-> Len(state.messages),
     last_checkpoint_message_count |-> last_checkpoint_count,
     messages_since_last |-> Len(state.messages) - last_checkpoint_count]

\* Node "checkpoint_judge" returns the judge's decision, the graph ends
\* (edge checkpoint_judge -> END), and chat() goes on from line 211.
JudgeCheckpoint(decision, checkpoint_id) ==
    /\ pc = "checkpoint_judge"
    /\ LET result == Merge(graph_state, judge_update(decision))
           auto == Get(result, "should_auto_checkpoint", FALSE)
           r == create_auto_checkpoint(result, checkpoint_id)
           c == IF auto THEN Collect(r.heap, r.cps, held)
                ELSE Collect(heap, checkpoints, held)
       IN  /\ current_state' = result
           /\ graph_state' = NoGraph
           /\ checkpoints' = c.cps
           /\ heap' = c.heap
           /\ held' = c.held
           /\ checkpoint_order' = IF auto THEN r.order ELSE checkpoint_order
           /\ saved_live' =
                  IF auto /\ ~r.raised
                  THEN SetKey(saved_live, checkpoint_id, result.messages)
                  ELSE saved_live
           /\ outcome' = Result("chat", IF auto /\ r.raised THEN "TypeError"
                                        ELSE "response")
    /\ pc' = "idle"
    /\ turn' = NoTurn
    /\ UNCHANGED calls
    /\ UNCHANGED sessionVars

\* ChatAgent.has_auto_checkpoint_for_current_state(); latest["created_by"]
\* raises KeyError when the summary has no such key
has_auto_checkpoint_for_current_state ==
    LET current_msg_count == Len(current_state.messages)
        listed == list_checkpoints
    IN  IF listed = <<>> THEN "False"
        ELSE LET latest == listed[Len(listed)]
             IN  IF "created_by" \notin DOMAIN latest THEN "KeyError"
                 ELSE IF /\ latest.created_by = "ai"
                         /\ latest.message_count = current_msg_count
                      THEN "True"
                      ELSE "False"

\* ChatAgent.save_checkpoint(name, description)
AgentSaveCheckpoint(args, checkpoint_id) ==
    /\ pc = "idle"
    /\ IF CallBinds(AgentSaveKeywords, SaveCheckpointParameters)
       THEN /\ Len(checkpoint_order) < MaxConversationCheckpoints
            /\ LET t == NewRef(heap)
                   h == SetKey(heap, t,
                           [messages |->
                               SerializeMessages(current_state.messages)])
                   r == save_checkpoint(checkpoints, checkpoint_order, h, t,
                                        args[1], args[2], checkpoint_id)
                   c == Collect(r.heap, r.cps, held)
               IN  /\ checkpoints' = c.cps
                   /\ checkpoint_order' = r.order
                   /\ heap' = c.heap
                   /\ held' = c.held
                   /\ saved_live' = SetKey(saved_live, checkpoint_id,
                                           current_state.messages)
                   /\ outcome' = Result("ChatAgent.save_checkpoint", "dict")
       ELSE /\ outcome' = Result("ChatAgent.save_checkpoint", "TypeError")
            /\ UNCHANGED storeVars
    /\ UNCHANGED agentVars
    /\ UNCHANGED calls
    /\ UNCHANGED sessionVars

\* The store's save_checkpoint, called with the state dict that
\* ChatAgent.save_checkpoint builds (lines 273-283) and with the parameters
\* the store declares: how a checkpoint of the conversation gets into the
\* store.
ConversationSaved(args, checkpoint_id) ==
    /\ pc = "idle"
    /\ LET t == NewRef(heap)
           h == SetKey(heap, t,
                   [messages |-> SerializeMessages(current_state.messages)])
           r == save_checkpoint(checkpoints, checkpoint_order, h, t,
                                args[1], args[2], checkpoint_id)
           c == Collect(r.heap, r.cps, held)
       IN  /\ checkpoints' = c.cps
           /\ checkpoint_order' = r.order
           /\ heap' = c.heap
           /\ held' = c.held
           /\ saved_live' =
                  SetKey(saved_live, checkpoint_id, current_state.messages)
           /\ outcome' = Result("save_checkpoint", "Checkpoint")
    /\ UNCHANGED agentVars
    /\ UNCHANGED calls
    /\ UNCHANGED sessionVars

SaveConversation(args, checkpoint_id) ==
    /\ Len(checkpoint_order) < MaxConversationCheckpoints
    /\ ConversationSaved(args, checkpoint_id)

\* ChatAgent.restore_checkpoint(checkpoint_id)
RestoreInstalls(checkpoint_id) ==
    /\ LET r == restore_checkpoint(checkpoints, checkpoint_order, heap,
                                   checkpoint_id)
           c == Collect(r.heap, r.cps, held)
       IN  /\ checkpoints' = c.cps
           /\ checkpoint_order' = r.order
           /\ heap' = c.heap
           /\ held' = c.held
           /\ saved_live' = KeepHistory(saved_live, r.cps)
           /\ current_state' =
                  IF r.found
                  THEN [messages |-> Reconstruct(r.heap[r.ret].messages)]
                  ELSE current_state
           /\ outcome' = Result("ChatAgent.restore_checkpoint",
                                IF r.found THEN "True" ELSE "False")
    /\ UNCHANGED <<pc, graph_state, turn>>
    /\ UNCHANGED calls
    /\ UNCHANGED sessionVars

\* ChatAgent.restore_checkpoint(checkpoint_id), called between turns
AgentRestoreCheckpoint(checkpoint_id) ==
    /\ pc = "idle"
    /\ RestoreInstalls(checkpoint_id)

\* ChatAgent.delete_checkpoint(checkpoint_id)
AgentDeleteCheckpoint(checkpoint_id) ==
    /\ DeleteCheckpoint(checkpoint_id)

\* ChatAgent.clear_conversation()
ClearConversation ==
    /\ pc = "idle"
    /\ current_state' = InitialState
    /\ outcome' = Result("clear_conversation", "None")
    /\ UNCHANGED <<pc, graph_state, turn, storeVars>>
    /\ UNCHANGED calls
    /\ UNCHANGED sessionVars

NextAgent ==
    \/ \E u \in UserTexts : ChatStart(u)
    \/ \E response \in FinalResponses \cup ToolRequests : CallModel(response)
    \/ CallTools
    \/ CollaboratorFails
    \/ JudgeFails
    \/ \E d \in JudgeDecisions, id \in CheckpointIds : JudgeCheckpoint(d, id)
    \/ \E args \in SaveArgs, id \in CheckpointIds :
           AgentSaveCheckpoint(args, id)
    \/ \E args \in ConversationSaveArgs, id \in CheckpointIds :
           SaveConversation(args, id)
    \/ \E id \in CheckpointIds : AgentRestoreCheckpoint(id)
    \/ \E id \in CheckpointIds : AgentDeleteCheckpoint(id)
    \/ ClearConversation

Spec == Init /\ [][NextAgent]_vars

(***************************************************************************)
(* Requests that arrive during a turn.  process_message stays in           *)
(* agent.chat() until the graph has ended; the server answers other        *)
(* requests of the same session in other threads meanwhile, and neither    *)
(* ChatAgent nor the callbacks confirm_restore and clear_chat look whether *)
(* a turn is running (toggle_input_state disables the send button and the  *)
(* input line only).                                                       *)
(***************************************************************************)
\* confirm_restore: agent.restore_checkpoint(checkpoint_id) during a turn
RestoreDuringTurn(checkpoint_id) ==
    /\ pc # "idle"
    /\ RestoreInstalls(checkpoint_id)

\* (mutation of ChatCleared) clear_chat without line 841
ConversationCleared ==
    /\ current_state' = InitialState
    /\ outcome' = Result("clear_chat", "None")
    /\ UNCHANGED <<pc, graph_state, turn, calls, storeVars>>
    /\ UNCHANGED sessionVars

\* clear_chat, lines 840-841: agent.clear_conversation() and
\* agent.checkpoint_manager.clear_all()
ChatCleared ==
    /\ current_state' = InitialState
    /\ LET c == Collect(heap, EmptyMap, held)
       IN  /\ checkpoints' = c.cps
           /\ heap' = c.heap
           /\ held' = c.held
    /\ checkpoint_order' = <<>>
    /\ saved_live' = EmptyMap
    /\ outcome' = Result("clear_chat", "None")
    /\ UNCHANGED <<pc, graph_state, turn, calls>>
    /\ UNCHANGED sessionVars

\* clear_chat during a turn
ClearDuringTurn ==
    /\ pc # "idle"
    /\ ChatCleared

NextOverlap ==
    \/ \E u \in UserTexts : ChatStart(u)
    \/ \E response \in FinalResponses \cup ToolRequests : CallModel(response)
    \/ CallTools
    \/ \E d \in JudgeDecisions, id \in CheckpointIds : JudgeCheckpoint(d, id)
    \/ \E args \in ConversationSaveArgs, id \in CheckpointIds :
           SaveConversation(args, id)
    \/ CollaboratorFails
    \/ JudgeFails
    \/ \E id \in CheckpointIds : AgentRestoreCheckpoint(id)
    \/ \E id \in CheckpointIds : RestoreDuringTurn(id)
    \/ ClearDuringTurn

SpecOverlap == Init /\ [][NextOverlap]_vars

\* graph.invoke() runs the graph node after node until END without
\* returning to the caller; chat() then runs on to its return.
GraphStep ==
    \/ \E response \in FinalResponses \cup ToolRequests : CallModel(response)
    \/ CallTools
    \/ \E decision \in JudgeDecisions, id \in CheckpointIds :
           JudgeCheckpoint(decision, id)

\* The agent with a graph that keeps running: a turn in progress takes its
\* next step.  Failures of the collaborators are possible, never required.
SpecFair == Init /\ [][NextAgent]_vars /\ WF_vars(GraphStep)


(***************************************************************************)
(* Claims about the Checkpoint Store (checked under SpecStore).            *)
(***************************************************************************)

\* C1: in every reachable state of the store the order list and the map
\* agree: every id of checkpoint_order is a key of checkpoints, every key
\* of checkpoints occurs in checkpoint_order, and no id occurs in
\* checkpoint_order more than once.
C1_OrderAndMapAgree ==
    /\ \A i \in 1..Len(checkpoint_order) :
           checkpoint_order[i] \in DOMAIN checkpoints
    /\ \A id \in DOMAIN checkpoints : id \in Range(checkpoint_order)
    /\ \A i, j \in 1..Len(checkpoint_order) :
           checkpoint_order[i] = checkpoint_order[j] => i = j

\* C2: restore(id) of an id in the store, followed by list(), returns
\* exactly the checkpoints that were at the positions up to id's position
\* before the call, in the same order.
C2_RestoreKeepsPrefix ==
    [][\A id \in CheckpointIds :
          (id \in DOMAIN checkpoints /\ RestoreCheckpoint(id))
              => list_checkpoints' =
                     list_of(checkpoints,
                             SubSeq(checkpoint_order, 1,
                                    IndexOf(checkpoint_order, id)))]_vars

\* C3: restore(id) is idempotent: a restore(id) that directly follows a
\* successful restore(id) leaves the live message sequence, the map and the
\* order list as the first one left them.
C3_RestoreIdempotent ==
    [][\A id \in CheckpointIds :
          (outcome = Result("restore_checkpoint", id) /\ RestoreCheckpoint(id))
              => /\ heap'[held'].messages = heap[held].messages
                 /\ checkpoints' = checkpoints
                 /\ checkpoint_order' = checkpoint_order]_vars

\* C3 witness: a restore has just succeeded and installed a conversation
\* while the store still holds checkpoints.
C3_Witness ==
    /\ outcome.op = "restore_checkpoint"
    /\ outcome.ret \in DOMAIN checkpoints
    /\ heap[held].messages # <<>>
    /\ Len(checkpoint_order) >= 2

\* C4: deep-copy isolation: whatever happens to the live state dict after a
\* save, the messages held by every stored checkpoint (get(id).state) are
\* the messages that were live when that checkpoint was saved.
C4_DeepCopyIsolation ==
    \A id \in DOMAIN checkpoints :
        heap[get_checkpoint(id).state].messages = saved_live[id]

\* C4 witness: the caller has just changed its state dict in place, and a
\* stored checkpoint was saved from a different content of it.
C4_Witness ==
    /\ outcome.op \in {"append", "pop"}
    /\ \E id \in DOMAIN checkpoints :
           /\ saved_live[id] # heap[held].messages
           /\ saved_live[id] # <<>>


(***************************************************************************)
(* Claims about the ChatAgent (checked under Spec and SpecFair).           *)
(***************************************************************************)

\* C5: session-level restore round trip: ChatAgent.restore_checkpoint(id)
\* of a checkpoint saved from the live sequence S installs a live sequence
\* equal to S (roles, contents and tool invocations, in order) with as many
\* messages as the checkpoint's message_count.
C5_RestoreRoundTrip ==
    [][\A id \in CheckpointIds :
          (id \in DOMAIN checkpoints /\ AgentRestoreCheckpoint(id))
              => /\ current_state'.messages = saved_live[id]
                 /\ Len(current_state'.messages) =
                        checkpoints[id].message_count]_vars

\* C6: turn failure rollback: when the model or a tool fails during a turn,
\* the conversation state after the failure holds the messages it held
\* before the turn.
C6_FailureRollsBack ==
    [][CollaboratorFails => current_state'.messages = turn.before]_vars

\* C7: a failure of the judge never fails a turn: chat() returns its
\* response, the final assistant message is in the live sequence, and the
\* store is unchanged.
C7_JudgeFailureSwallowed ==
    [][JudgeFails
          => /\ outcome'.ret = "response"
             /\ current_state'.messages = graph_state.messages
             /\ checkpoints' = checkpoints
             /\ checkpoint_order' = checkpoint_order]_vars

\* C8: a turn whose judge decision says save ends with exactly one new
\* checkpoint appended to the store, named with the suggested name,
\* described with the reason and holding the full live sequence; a turn
\* whose decision says do not save leaves the store unchanged.
C8_AutoCheckpointOnSave ==
    [][\A decision \in JudgeDecisions, id \in CheckpointIds :
          JudgeCheckpoint(decision, id)
              => IF decision.should_save
                 THEN /\ Len(checkpoint_order') = Len(checkpoint_order) + 1
                      /\ LET cp == get_latest_checkpoint'
                         IN  /\ cp.name = decision.suggested_name
                             /\ cp.description = decision.reason
                             /\ heap'[cp.state].messages =
                                    SerializeMessages(current_state'.messages)
                 ELSE /\ checkpoints' = checkpoints
                      /\ checkpoint_order' = checkpoint_order]_vars

\* C9: the turn state machine: a turn starts in node "agent"; from "agent"
\* the graph goes to "tools" exactly when the latest assistant message
\* carries tool calls and otherwise to "checkpoint_judge"; "tools" goes back
\* to "agent"; "checkpoint_judge" is followed only by the end of the turn,
\* and it was entered once in that turn.
C9_TurnStateMachine ==
    [][/\ (pc = "idle" /\ pc' # "idle") => pc' = "agent"
       /\ (pc = "agent" /\ ~CollaboratorFails)
              => LET last_message ==
                         graph_state'.messages[Len(graph_state'.messages)]
                 IN  /\ last_message.type = "AIMessage"
                     /\ pc' = "tools" <=> last_message.tool_calls # <<>>
                     /\ pc' = "checkpoint_judge"
                            <=> last_message.tool_calls = <<>>
       /\ (pc = "tools" /\ ~CollaboratorFails) => pc' = "agent"
       /\ pc = "checkpoint_judge" => (pc' = "idle" /\ turn.judged = 1)]_vars

\* C9 witness: a turn reached the judge node after a round of tools.
C9_Witness ==
    /\ pc = "checkpoint_judge"
    /\ turn.rounds >= 1
    /\ turn.judged = 1

\* C10: every turn terminates: a turn that has started ends, whatever the
\* model answers.
C10_TurnTerminates == turn.running ~> ~turn.running


(***************************************************************************)
(* Claims about concurrent calls (checked under SpecThreads, SpecOverlap). *)
(***************************************************************************)

\* C11: restore is atomic for a concurrent list() or save(): no list() in
\* progress meets an id of the order list that is missing from the map,
\* and when no call is in progress the order list and the map agree.
C11_RestoreAtomic ==
    /\ \A t \in Threads : calls[t].op = "list" => ~calls[t].missing
    /\ (\A t \in Threads : calls[t].op = "idle")
           => /\ Range(checkpoint_order) = DOMAIN checkpoints
              /\ \A i, j \in 1..Len(checkpoint_order) :
                     checkpoint_order[i] = checkpoint_order[j] => i = j

\* C12: per-session serialization: while a turn is outstanding no other
\* operation on the session takes effect (the conversation state and the
\* store stay as they are until the turn installs its result), and what
\* the turn installs continues the conversation that is live then.
C12_TurnSerialized ==
    [][/\ (turn.running /\ turn'.running)
              => /\ current_state' = current_state
                 /\ checkpoints' = checkpoints
                 /\ checkpoint_order' = checkpoint_order
       /\ \A decision \in JudgeDecisions, id \in CheckpointIds :
              JudgeCheckpoint(decision, id)
                  => current_state.messages =
                         SubSeq(current_state'.messages, 1,
                                Len(turn.before) + 1)]_vars

(***************************************************************************)
(* The sessions.  SessionManager maps a session id to a ChatAgent object   *)
(* and to the time of its last access; a browser tab keeps its session id  *)
(* in the page and every callback of the page looks its agent up with      *)
(* get_agent.  A ChatAgent object is held by reference: instances maps the *)
(* reference to the object's current_state and to the map and the order    *)
(* list of its CheckpointManager, a saved state standing in the checkpoint *)
(* itself.                                                                 *)
(***************************************************************************)
\* ChatAgent.__init__: the state and the store of a new agent
FreshAgent ==
    [current_state |-> InitialState,
     checkpoints |-> EmptyMap,
     checkpoint_order |-> <<>>]

\* (mutation of ChatAgent) the agents share one object
SharedChatAgent(objs) ==
    IF objs = EmptyMap
    THEN [instances |-> SetKey(objs, 1, FreshAgent), ref |-> 1]
    ELSE [instances |-> objs, ref |-> Min(DOMAIN objs)]

\* ChatAgent(): a new object
ChatAgent(objs) ==
    LET r == Min(AgentRefs \ DOMAIN objs)
    IN  [instances |-> SetKey(objs, r, FreshAgent), ref |-> r]

\* the objects the registry still refers to
Registered(ags, objs) ==
    [r \in (DOMAIN objs) \cap {ags[id] : id \in DOMAIN ags} |-> objs[r]]

\* create_session(), lines 44-46, with session_id the id drawn in line 42
create_session(ags, accessed, objs, new_id, time) ==
    LET a == ChatAgent(objs)
        registered == SetKey(ags, new_id, a.ref)
    IN  [agents |-> registered,
         last_access |-> SetKey(accessed, new_id, time),
         instances |-> Registered(registered, a.instances)]

\* the store of an agent laid out for the operators of the store: reference
\* 1 is the serialised live state, and the state of checkpoint IdList[k] is
\* at reference k + 1
AgentHeap(agent) ==
    [r \in {1} \cup {IndexOf(IdList, id) + 1 : id \in DOMAIN agent.checkpoints}
        |-> IF r = 1
            THEN [messages |->
                     SerializeMessages(agent.current_state.messages)]
            ELSE agent.checkpoints[IdList[r - 1]].state]

AgentCheckpoints(agent) ==
    [id \in DOMAIN agent.checkpoints |->
        [agent.checkpoints[id] EXCEPT !.state = IndexOf(IdList, id) + 1]]

\* the checkpoints with their states in place of the references
Inline(cps, h) ==
    [id \in DOMAIN cps |-> [cps[id] EXCEPT !.state = h[cps[id].state]]]

\* agent.chat(user_message) of a turn without tool calls, as it leaves
\* current_state (line 211)
agent_chat(agent, user_message, response, decision) ==
    [agent EXCEPT
        !.current_state =
            Merge([@ EXCEPT !.messages =
                       @ \o <<HumanMessage(user_message), response>>],
                  judge_update(decision))]

\* the store's save_checkpoint with the state dict of lines 273-283
agent_save_state(agent, args, checkpoint_id) ==
    LET r == save_checkpoint(AgentCheckpoints(agent), agent.checkpoint_order,
                             AgentHeap(agent), 1, args[1], args[2],
                             checkpoint_id)
    IN  [agent EXCEPT !.checkpoints = Inline(r.cps, r.heap),
                      !.checkpoint_order = r.order]

\* agent.restore_checkpoint(checkpoint_id)
agent_restore_checkpoint(agent, checkpoint_id) ==
    LET r == restore_checkpoint(AgentCheckpoints(agent),
                                agent.checkpoint_order, AgentHeap(agent),
                                checkpoint_id)
    IN  IF r.found
        THEN [agent EXCEPT
                 !.current_state =
                     [messages |-> Reconstruct(r.heap[r.ret].messages)],
                 !.checkpoints = Inline(r.cps, r.heap),
                 !.checkpoint_order = r.order]
        ELSE agent

\* agent.delete_checkpoint(checkpoint_id)
agent_delete_checkpoint(agent, checkpoint_id) ==
    LET r == delete_checkpoint(agent.checkpoints, agent.checkpoint_order,
                               checkpoint_id)
    IN  [agent EXCEPT !.checkpoints = r.cps, !.checkpoint_order = r.order]

\* agent.clear_conversation() and agent.checkpoint_manager.clear_all()
agent_clear_chat(agent) ==
    [agent EXCEPT !.current_state = InitialState,
                  !.checkpoints = EmptyMap,
                  !.checkpoint_order = <<>>]

\* get_agent(session_id) finds an agent for the tab
Serving(t) == session_id[t] # None /\ session_id[t] \in DOMAIN agents

\* the agent object get_agent returns to the tab
AgentOf(t) == instances[agents[session_id[t]]]

\* initialize_session: a tab without a session id, or with one that the
\* registry does not know, gets a new session from create_session()
InitializeSession(t, new_id) ==
    /\ lock = "free"
    /\ requests[t] = Idle
    /\ IF Serving(t)
       THEN /\ last_access' = [last_access EXCEPT ![session_id[t]] = now]
            /\ outcome' = Result("initialize_session", session_id[t])
            /\ UNCHANGED <<agents, instances, session_id>>
       ELSE LET r == create_session(agents, last_access, instances, new_id,
                                     now)
            IN  /\ agents' = r.agents
                /\ instances' = r.instances
                /\ last_access' = r.last_access
                /\ session_id' = [session_id EXCEPT ![t] = new_id]
                /\ outcome' = Result("initialize_session", new_id)
    /\ UNCHANGED <<storeVars, agentVars, calls, now, lock, requests>>

\* a callback of the tab that got its agent from get_agent and left the
\* agent object as updated
AgentUpdated(t, updated, op) ==
    /\ lock = "free"
    /\ requests[t] = Idle
    /\ Serving(t)
    /\ instances' = [instances EXCEPT ![agents[session_id[t]]] = updated]
    /\ last_access' = [last_access EXCEPT ![session_id[t]] = now]
    /\ outcome' = Result(op, session_id[t])
    /\ UNCHANGED <<agents, session_id, now, lock, requests>>
    /\ UNCHANGED <<storeVars, agentVars, calls>>

\* process_message with a new message: agent.chat(content)
MessageProcessed(t, user_message, response, decision) ==
    /\ Serving(t)
    /\ AgentUpdated(t, agent_chat(AgentOf(t), user_message, response,
                                  decision),
                    "process_message")

ProcessMessage(t, user_message, response, decision) ==
    /\ Serving(t)
    /\ Len(AgentOf(t).current_state.messages) + 2 <= MaxSessionMessages
    /\ MessageProcessed(t, user_message, response, decision)

\* a checkpoint of the tab's conversation is put into its store
SessionSaved(t, args, checkpoint_id) ==
    /\ Serving(t)
    /\ AgentUpdated(t, agent_save_state(AgentOf(t), args, checkpoint_id),
                    "save_checkpoint")

SessionSave(t, args, checkpoint_id) ==
    /\ Serving(t)
    /\ Len(AgentOf(t).checkpoint_order) < MaxSessionCheckpoints
    /\ SessionSaved(t, args, checkpoint_id)

\* confirm_restore: agent.restore_checkpoint(checkpoint_id)
ConfirmRestore(t, checkpoint_id) ==
    /\ Serving(t)
    /\ AgentUpdated(t, agent_restore_checkpoint(AgentOf(t), checkpoint_id),
                    "confirm_restore")

\* delete_checkpoint (the callback): agent.delete_checkpoint(checkpoint_id)
DeleteClicked(t, checkpoint_id) ==
    /\ Serving(t)
    /\ AgentUpdated(t, agent_delete_checkpoint(AgentOf(t), checkpoint_id),
                    "delete_checkpoint")

\* clear_chat
ClearChat(t) ==
    /\ Serving(t)
    /\ AgentUpdated(t, agent_clear_chat(AgentOf(t)), "clear_chat")

\* one callback of tab t that works on the tab's session
SessionOperation(t) ==
    \/ \E u \in UserTexts, response \in FinalResponses,
          d \in JudgeDecisions : ProcessMessage(t, u, response, d)
    \/ \E args \in ConversationSaveArgs, id \in CheckpointIds :
           SessionSave(t, args, id)
    \/ \E id \in CheckpointIds : ConfirmRestore(t, id)
    \/ \E id \in CheckpointIds : DeleteClicked(t, id)
    \/ ClearChat(t)

NextSessions ==
    \/ \E t \in Tabs, id \in SessionIds : InitializeSession(t, id)
    \/ \E t \in Tabs, u \in UserTexts, response \in FinalResponses,
          d \in JudgeDecisions : ProcessMessage(t, u, response, d)
    \/ \E t \in Tabs, args \in ConversationSaveArgs, id \in CheckpointIds :
           SessionSave(t, args, id)
    \/ \E t \in Tabs, id \in CheckpointIds : ConfirmRestore(t, id)
    \/ \E t \in Tabs, id \in CheckpointIds : DeleteClicked(t, id)
    \/ \E t \in Tabs : ClearChat(t)

SpecSessions == Init /\ [][NextSessions]_vars

(***************************************************************************)
(* The registry and the clock: the methods of SessionManager called one    *)
(* after the other while time passes.                                      *)
(***************************************************************************)
\* time passes
Tick ==
    /\ now < MaxTime
    /\ now' = now + 1
    /\ outcome' = Result("tick", "None")
    /\ UNCHANGED <<agents, last_access, instances, lock, requests,
                   session_id>>
    /\ UNCHANGED <<storeVars, agentVars, calls>>

\* session_manager.create_session()
CreateSession(new_id) ==
    /\ lock = "free"
    /\ LET r == create_session(agents, last_access, instances, new_id, now)
       IN  /\ agents' = r.agents
           /\ last_access' = r.last_access
           /\ instances' = r.instances
    /\ outcome' = Result("create_session", new_id)
    /\ UNCHANGED <<now, lock, requests, session_id>>
    /\ UNCHANGED <<storeVars, agentVars, calls>>

\* session_manager.get_agent(id)
GetAgent(id) ==
    /\ lock = "free"
    /\ IF id \in DOMAIN agents
       THEN /\ last_access' = [last_access EXCEPT ![id] = now]
            /\ outcome' = Result("get_agent", "ChatAgent")
       ELSE /\ outcome' = Result("get_agent", None)
            /\ UNCHANGED last_access
    /\ UNCHANGED <<agents, instances, now, lock, requests, session_id>>
    /\ UNCHANGED <<storeVars, agentVars, calls>>

\* session_manager.delete_session(id)
DeleteSession(id) ==
    /\ lock = "free"
    /\ IF id \in DOMAIN agents
       THEN /\ agents' = DelKey(agents, id)
            /\ last_access' = DelKey(last_access, id)
            /\ instances' = Registered(DelKey(agents, id), instances)
            /\ outcome' = Result("delete_session", "True")
       ELSE /\ outcome' = Result("delete_session", "False")
            /\ UNCHANGED <<agents, last_access, instances>>
    /\ UNCHANGED <<now, lock, requests, session_id>>
    /\ UNCHANGED <<storeVars, agentVars, calls>>

\* (mutation of inactive) a session is removed at the timeout already
inactive_at_timeout(time, last_time) == time - last_time >= session_timeout

\* cleanup_inactive_sessions, line 115: now - last_time > self.session_timeout
inactive(time, last_time) == time - last_time > session_timeout

\* cleanup_inactive_sessions, lines 114-116
sessions_to_remove(accessed, time) ==
    {id \in DOMAIN accessed : inactive(time, accessed[id])}

\* session_manager.cleanup_inactive_sessions(); del self.agents[session_id]
\* raises KeyError for an id that only last_access has
CleanupInactiveSessions ==
    /\ lock = "free"
    /\ LET gone == sessions_to_remove(last_access, now)
           kept == [id \in (DOMAIN agents) \ gone |-> agents[id]]
       IN  IF gone \subseteq DOMAIN agents
           THEN /\ agents' = kept
                /\ last_access' =
                       [id \in (DOMAIN last_access) \ gone |->
                           last_access[id]]
                /\ instances' = Registered(kept, instances)
                /\ outcome' = Result("cleanup_inactive_sessions",
                                     ToString(Cardinality(gone)))
           ELSE /\ outcome' = Result("cleanup_inactive_sessions",
                                     "KeyError")
                /\ UNCHANGED <<agents, last_access, instances>>
    /\ UNCHANGED <<now, lock, requests, session_id>>
    /\ UNCHANGED <<storeVars, agentVars, calls>>

NextEvict ==
    \/ Tick
    \/ \E id \in SessionIds : CreateSession(id)
    \/ \E id \in SessionIds : GetAgent(id)
    \/ \E id \in SessionIds : DeleteSession(id)
    \/ CleanupInactiveSessions

SpecEvict == Init /\ [][NextEvict]_vars

(***************************************************************************)
(* The registry under concurrent requests.  Each tab's request runs one    *)
(* method of SessionManager in a thread of its own; a method is followed   *)
(* statement by statement: it waits for self.lock, works on self.agents,   *)
(* then on self.last_access, and leaves the with block.  requests[t].at is *)
(* the statement the thread of tab t comes to next.                        *)
(***************************************************************************)
RegistryOps ==
    {"create_session", "get_agent", "delete_session",
     "cleanup_inactive_sessions", "get_session_count", "get_session_info"}

\* the frame of tab t's request becomes f; nothing but the registry moves
Goto(t, f) ==
    /\ requests' = [requests EXCEPT ![t] = f]
    /\ UNCHANGED <<session_id, storeVars, agentVars, calls>>

\* the statement tab t's request is at
At(t, op, at) ==
    /\ requests[t] # Idle
    /\ requests[t].op = op
    /\ requests[t].at = at

\* time passes while requests run
RegistryTick ==
    /\ now < MaxRegistryTime
    /\ now' = now + 1
    /\ UNCHANGED <<agents, last_access, instances, lock, requests,
                   session_id, outcome>>
    /\ UNCHANGED <<storeVars, agentVars, calls>>

\* a request calls a method; cleanup_inactive_sessions reads the clock
\* before it waits for the lock (line 111)
RegistryCall(t, op, id) ==
    /\ requests[t] = Idle
    /\ (id = None) = (op \in {"cleanup_inactive_sessions",
                              "get_session_count"})
    /\ Goto(t, [op |-> op, id |-> id,
                time |-> IF op = "cleanup_inactive_sessions" THEN now ELSE 0,
                at |-> "lock", todo |-> <<>>, ret |-> None])
    /\ UNCHANGED <<agents, last_access, instances, now, lock, outcome>>

\* (mutation of Acquire) the with block is entered without the lock
EnterUnlocked(t) ==
    /\ requests[t] # Idle
    /\ requests[t].at = "lock"
    /\ lock' = t
    /\ Goto(t, [requests[t] EXCEPT
                   !.at = IF requests[t].op = "cleanup_inactive_sessions"
                          THEN "scan" ELSE "agents"])
    /\ UNCHANGED <<agents, last_access, instances, now, outcome>>

\* with self.lock: the thread goes on when it has got the lock
Acquire(t) ==
    /\ requests[t] # Idle
    /\ requests[t].at = "lock"
    /\ lock = "free"
    /\ lock' = t
    /\ Goto(t, [requests[t] EXCEPT
                   !.at = IF requests[t].op = "cleanup_inactive_sessions"
                          THEN "scan" ELSE "agents"])
    /\ UNCHANGED <<agents, last_access, instances, now, outcome>>

\* the end of the with block: the lock is given back and the method returns
Release(t) ==
    /\ requests[t] # Idle
    /\ requests[t].at = "release"
    /\ lock' = IF lock = t THEN "free" ELSE lock
    /\ outcome' = Result(requests[t].op, requests[t].ret)
    /\ Goto(t, Idle)
    /\ UNCHANGED <<agents, last_access, instances, now>>

\* create_session, line 45: self.agents[session_id] = ChatAgent()
CreateAgents(t) ==
    /\ At(t, "create_session", "agents")
    /\ LET a == ChatAgent(instances)
           registered == SetKey(agents, requests[t].id, a.ref)
       IN  /\ agents' = registered
           /\ instances' = Registered(registered, a.instances)
    /\ Goto(t, [requests[t] EXCEPT !.at = "last_access"])
    /\ UNCHANGED <<last_access, now, lock, outcome>>

\* create_session, line 46: self.last_access[session_id] = datetime.now()
CreateLastAccess(t) ==
    /\ At(t, "create_session", "last_access")
    /\ last_access' = SetKey(last_access, requests[t].id, now)
    /\ Goto(t, [requests[t] EXCEPT !.at = "release", !.ret = requests[t].id])
    /\ UNCHANGED <<agents, instances, now, lock, outcome>>

\* get_agent, line 61: if session_id in self.agents
GetLookup(t) ==
    /\ At(t, "get_agent", "agents")
    /\ Goto(t, [requests[t] EXCEPT
                   !.at = IF requests[t].id \in DOMAIN agents
                          THEN "last_access" ELSE "release"])
    /\ UNCHANGED <<agents, last_access, instances, now, lock, outcome>>

\* get_agent, lines 62-63: the refresh, and the agent is returned
GetRefresh(t) ==
    /\ At(t, "get_agent", "last_access")
    /\ last_access' = SetKey(last_access, requests[t].id, now)
    /\ Goto(t, [requests[t] EXCEPT
                   !.at = "release",
                   !.ret = IF requests[t].id \in DOMAIN agents
                           THEN "ChatAgent" ELSE "KeyError"])
    /\ UNCHANGED <<agents, instances, now, lock, outcome>>

\* delete_session, lines 97-98
DeleteAgents(t) ==
    /\ At(t, "delete_session", "agents")
    /\ IF requests[t].id \in DOMAIN agents
       THEN /\ agents' = DelKey(agents, requests[t].id)
            /\ instances' =
                   Registered(DelKey(agents, requests[t].id), instances)
            /\ Goto(t, [requests[t] EXCEPT !.at = "last_access"])
       ELSE /\ Goto(t, [requests[t] EXCEPT !.at = "release",
                                           !.ret = "False"])
            /\ UNCHANGED <<agents, instances>>
    /\ UNCHANGED <<last_access, now, lock, outcome>>

\* delete_session, lines 99-101
DeleteLastAccess(t) ==
    /\ At(t, "delete_session", "last_access")
    /\ last_access' = DelKey(last_access, requests[t].id)
    /\ Goto(t, [requests[t] EXCEPT !.at = "release", !.ret = "True"])
    /\ UNCHANGED <<agents, instances, now, lock, outcome>>

\* cleanup_inactive_sessions, lines 114-116: the ids to remove, with the
\* time read in line 111
CleanupScan(t) ==
    /\ At(t, "cleanup_inactive_sessions", "scan")
    /\ LET gone == sessions_to_remove(last_access, requests[t].time)
           todo == SelectSeq(SessionIdList, LAMBDA id : id \in gone)
       IN  Goto(t, [requests[t] EXCEPT
                       !.todo = todo,
                       !.ret = ToString(Len(todo)),
                       !.at = IF todo = <<>> THEN "release" ELSE "agents"])
    /\ UNCHANGED <<agents, last_access, instances, now, lock, outcome>>

\* cleanup_inactive_sessions, line 119: del self.agents[session_id]
CleanupDeleteAgents(t) ==
    /\ At(t, "cleanup_inactive_sessions", "agents")
    /\ LET id == Head(requests[t].todo)
       IN  IF id \in DOMAIN agents
           THEN /\ agents' = DelKey(agents, id)
                /\ instances' = Registered(DelKey(agents, id), instances)
                /\ Goto(t, [requests[t] EXCEPT !.at = "last_access"])
           ELSE /\ Goto(t, [requests[t] EXCEPT !.at = "release",
                                               !.ret = "KeyError"])
                /\ UNCHANGED <<agents, instances>>
    /\ UNCHANGED <<last_access, now, lock, outcome>>

\* cleanup_inactive_sessions, line 120: del self.last_access[session_id]
CleanupDeleteLastAccess(t) ==
    /\ At(t, "cleanup_inactive_sessions", "last_access")
    /\ LET id == Head(requests[t].todo)
           rest == Tail(requests[t].todo)
       IN  IF id \in DOMAIN last_access
           THEN /\ last_access' = DelKey(last_access, id)
                /\ Goto(t, [requests[t] EXCEPT
                               !.todo = rest,
                               !.at = IF rest = <<>> THEN "release"
                                      ELSE "agents"])
           ELSE /\ Goto(t, [requests[t] EXCEPT !.at = "release",
                                               !.ret = "KeyError"])
                /\ UNCHANGED last_access
    /\ UNCHANGED <<agents, instances, now, lock, outcome>>

\* get_session_count, line 128
CountSessions(t) ==
    /\ At(t, "get_session_count", "agents")
    /\ Goto(t, [requests[t] EXCEPT
                   !.at = "release",
                   !.ret = ToString(Cardinality(DOMAIN agents))])
    /\ UNCHANGED <<agents, last_access, instances, now, lock, outcome>>

\* get_session_info, line 141: if session_id in self.agents
InfoLookup(t) ==
    /\ At(t, "get_session_info", "agents")
    /\ Goto(t, [requests[t] EXCEPT
                   !.at = IF requests[t].id \in DOMAIN agents
                          THEN "last_access" ELSE "release"])
    /\ UNCHANGED <<agents, last_access, instances, now, lock, outcome>>

\* get_session_info, lines 142-148: self.last_access[session_id] is read
InfoRead(t) ==
    /\ At(t, "get_session_info", "last_access")
    /\ Goto(t, [requests[t] EXCEPT
                   !.at = "release",
                   !.ret = IF requests[t].id \in DOMAIN last_access
                           THEN "dict" ELSE "KeyError"])
    /\ UNCHANGED <<agents, last_access, instances, now, lock, outcome>>

NextRegistry ==
    \/ RegistryTick
    \/ \E t \in Tabs, op \in RegistryOps, id \in SessionIds \cup {None} :
           RegistryCall(t, op, id)
    \/ \E t \in Tabs : Acquire(t)
    \/ \E t \in Tabs : Release(t)
    \/ \E t \in Tabs : CreateAgents(t)
    \/ \E t \in Tabs : CreateLastAccess(t)
    \/ \E t \in Tabs : GetLookup(t)
    \/ \E t \in Tabs : GetRefresh(t)
    \/ \E t \in Tabs : DeleteAgents(t)
    \/ \E t \in Tabs : DeleteLastAccess(t)
    \/ \E t \in Tabs : CleanupScan(t)
    \/ \E t \in Tabs : CleanupDeleteAgents(t)
    \/ \E t \in Tabs : CleanupDeleteLastAccess(t)
    \/ \E t \in Tabs : CountSessions(t)
    \/ \E t \in Tabs : InfoLookup(t)
    \/ \E t \in Tabs : InfoRead(t)

SpecRegistry == Init /\ [][NextRegistry]_vars

(***************************************************************************)
(* Turns of a session whose store takes up to MaxCheckpoints checkpoints   *)
(* of the conversation, to follow what the judge is told about the latest  *)
(* of them.                                                                *)
(***************************************************************************)
SaveConversationMore(args, checkpoint_id) ==
    /\ Len(checkpoint_order) < MaxCheckpoints
    /\ ConversationSaved(args, checkpoint_id)

NextJudge ==
    \/ \E u \in UserTexts : ChatStart(u)
    \/ \E response \in FinalResponses : CallModel(response)
    \/ CollaboratorFails
    \/ \E d \in JudgeDecisions, id \in CheckpointIds : JudgeCheckpoint(d, id)
    \/ \E args \in ConversationSaveArgs, id \in CheckpointIds :
           SaveConversationMore(args, id)
    \/ \E id \in CheckpointIds : AgentRestoreCheckpoint(id)

SpecJudge == Init /\ [][NextJudge]_vars

(***************************************************************************)
(* The text of a turn.  A text is the sequence of its characters, so that  *)
(* str.strip() and the test of an empty string are computed; the message   *)
(* content is the string of these characters.  ChatAgent.chat is called    *)
(* with the text as it is, and the send button of the web page calls it    *)
(* through capture_and_clear_input and process_message.                    *)
(***************************************************************************)
\* the characters str.strip() removes
Whitespace == {" ", "\t"}

\* the user's text in the input line, or the argument of chat()
InputTexts ==
    {<<>>, <<" ">>, <<" ", "\t">>, <<"H", "i">>, <<" ", "H", "i", " ">>}

RECURSIVE lstrip(_)
lstrip(text) ==
    IF text # <<>> /\ Head(text) \in Whitespace THEN lstrip(Tail(text))
    ELSE text

RECURSIVE rstrip(_)
rstrip(text) ==
    IF text # <<>> /\ text[Len(text)] \in Whitespace
    THEN rstrip(SubSeq(text, 1, Len(text) - 1))
    ELSE text

\* user_input.strip()
strip(text) == rstrip(lstrip(text))

\* the Python string of a sequence of characters
RECURSIVE Join(_)
Join(text) == IF text = <<>> THEN "" ELSE Head(text) \o Join(Tail(text))

\* not user_input or not user_input.strip()
Blank(text) == text = <<>> \/ strip(text) = <<>>

\* agent.chat(user_message) with the text as given
Chat(text) ==
    /\ text \in InputTexts
    /\ ChatStart(Join(text))

\* the send button: capture_and_clear_input hands the stripped text to
\* process_message, which calls agent.chat(content); a blank text is
\* dropped with no_update
SendInput(text) ==
    IF Blank(text)
    THEN /\ pc = "idle"
         /\ outcome' = Result("capture_and_clear_input", "no_update")
         /\ UNCHANGED storeVars
         /\ UNCHANGED agentVars
         /\ UNCHANGED calls
         /\ UNCHANGED sessionVars
    ELSE ChatStart(Join(strip(text)))

NextInput ==
    \/ \E text \in InputTexts : Chat(text)
    \/ \E text \in InputTexts : SendInput(text)
    \/ \E response \in FinalResponses \cup ToolRequests : CallModel(response)
    \/ CallTools
    \/ CollaboratorFails
    \/ JudgeFails
    \/ \E d \in JudgeDecisions, id \in CheckpointIds : JudgeCheckpoint(d, id)
    \/ ClearConversation

SpecInput == Init /\ [][NextInput]_vars

(***************************************************************************)
(* Further claims about the store and the agent.                           *)
(***************************************************************************)

\* C13: not-found leaves the state unchanged: for an id that is not in the
\* store, get returns None, restore returns None and delete returns False
\* without changing the map or the order list, and the session-level
\* restore returns False and leaves the live messages as they are.
C13_NotFoundUnchanged ==
    [][\A id \in CheckpointIds :
          id \notin DOMAIN checkpoints
              => /\ get_checkpoint(id) = None
                 /\ LET r == restore_checkpoint(checkpoints, checkpoint_order,
                                                heap, id)
                    IN  /\ ~r.found
                        /\ r.cps = checkpoints
                        /\ r.order = checkpoint_order
                 /\ LET d == delete_checkpoint(checkpoints, checkpoint_order,
                                               id)
                    IN  /\ d.ret = "False"
                        /\ d.cps = checkpoints
                        /\ d.order = checkpoint_order
                 /\ AgentRestoreCheckpoint(id)
                        => /\ outcome'.ret = "False"
                           /\ current_state' = current_state
                           /\ checkpoints' = checkpoints
                           /\ checkpoint_order' = checkpoint_order
                 /\ AgentDeleteCheckpoint(id)
                        => /\ outcome'.ret = "False"
                           /\ checkpoints' = checkpoints
                           /\ checkpoint_order' = checkpoint_order]_vars

\* C13 witness: the session-level restore of an unknown id has returned
\* False while the store holds a checkpoint and the conversation messages.
C13_Witness ==
    /\ outcome = Result("ChatAgent.restore_checkpoint", "False")
    /\ checkpoint_order # <<>>
    /\ current_state.messages # <<>>

\* C14: save, delete and restore are total: whether a person or the
\* checkpoint policy triggers them, no call of the session-level or of the
\* store-level operation ends with an exception.
C14_OperationsTotal ==
    /\ outcome.op \in {"ChatAgent.save_checkpoint", "save_checkpoint",
                       "ChatAgent.restore_checkpoint", "restore_checkpoint",
                       "delete_checkpoint"}
           => outcome.ret \notin {"TypeError", "ValueError"}
    /\ outcome.op = "chat" => outcome.ret # "TypeError"

\* C15: list() returns the checkpoints in strict creation order and each
\* summary's message_count is the length of the sequence that was live at
\* the save: a save leaves the summaries listed before it as they were, in
\* their order, and adds the summary of the new checkpoint behind them, with
\* the number of messages of the state that was saved.
C15_ListInCreationOrder ==
    [][\A args \in SaveArgs, id \in CheckpointIds :
          SaveCheckpoint(args, id)
              => LET before == list_checkpoints
                     after == list_checkpoints'
                 IN  /\ Len(after) = Len(before) + 1
                     /\ SubSeq(after, 1, Len(before)) = before
                     /\ after[Len(after)].id = id
                     /\ after[Len(after)].message_count =
                            Len(heap[held].messages)]_vars

\* C16: delete removes exactly one checkpoint: delete(id) of an id in the
\* store returns True and removes that checkpoint; every other checkpoint
\* stays in the store with its fields and its saved state, list() is the
\* list of before without the summaries of that id, in the same relative
\* order, and nothing else is removed with it.
C16_DeleteRemovesOne ==
    [][\A id \in CheckpointIds :
          (id \in DOMAIN checkpoints /\ DeleteCheckpoint(id))
              => /\ outcome'.ret = "True"
                 /\ DOMAIN checkpoints' = (DOMAIN checkpoints) \ {id}
                 /\ \A other \in DOMAIN checkpoints' :
                        /\ [checkpoints'[other] EXCEPT !.state = 0] =
                               [checkpoints[other] EXCEPT !.state = 0]
                        /\ heap'[checkpoints'[other].state] =
                               heap[checkpoints[other].state]
                 /\ list_checkpoints' =
                        SelectSeq(list_checkpoints,
                                  LAMBDA summary : summary.id # id)]_vars

\* C16 witness: a delete has returned True and left another checkpoint in
\* the store.
C16_Witness ==
    /\ outcome = Result("delete_checkpoint", "True")
    /\ checkpoints # EmptyMap
    /\ checkpoint_order # <<>>

\* C17: saves never overwrite: every save gives the new checkpoint an id
\* that differs from every id in the store, and list() is exactly one entry
\* longer after it; a save never replaces or hides a stored checkpoint.
C17_SaveNeverOverwrites ==
    [][\A args \in SaveArgs, id \in CheckpointIds :
          SaveCheckpoint(args, id)
              => /\ id \notin DOMAIN checkpoints
                 /\ id \notin Range(checkpoint_order)
                 /\ Len(list_checkpoints') = Len(list_checkpoints) + 1
                 /\ \A other \in DOMAIN checkpoints :
                        /\ other \in DOMAIN checkpoints'
                        /\ checkpoints'[other].name = checkpoints[other].name
                        /\ heap'[checkpoints'[other].state] =
                               heap[checkpoints[other].state]]_vars

C19_CreatedByRecorded ==
    /\ \A i \in 1..Len(list_checkpoints) :
           LET summary == list_checkpoints[i]
           IN  /\ {"id", "name", "message_count", "description"}
                      \subseteq DOMAIN summary
               /\ "state" \notin DOMAIN summary
               /\ "created_by" \in DOMAIN summary
               /\ summary.created_by \in {"human", "auto", "user", "ai"}
    /\ has_auto_checkpoint_for_current_state \in {"True", "False"}

\* C20: user text that is empty after trimming is rejected by the turn
\* operation with a ValidationError: chat() called with such a text appends
\* no message, starts no run of the graph, and leaves the conversation
\* state and the checkpoint store as they were.
C20_BlankInputRejected ==
    [][\A text \in InputTexts :
          (Blank(text) /\ Chat(text))
              => /\ outcome'.ret = "ValidationError"
                 /\ current_state' = current_state
                 /\ pc' = "idle"
                 /\ checkpoints' = checkpoints
                 /\ checkpoint_order' = checkpoint_order]_vars

(***************************************************************************)
(* Edits and versions.  dash_app.py calls agent.edit_message,              *)
(* agent.switch_message_version and agent.get_conversation_with_edit_info; *)
(* agent.py does not define them.  The three methods are modelled from     *)
(* section 4.3 of the specification (Branch/Version Tracker), the          *)
(* callbacks that call them from dash_app.py.  The version sets are an     *)
(* attribute of the agent that exists once a message was edited.           *)
(***************************************************************************)
MaxEditMessages == 4
MaxEdits == 2

\* the tab that edits
Editor == "tab1"

\* the text handle_save_edit hands over: trimmed and not empty (line 619)
EditTexts == {"A", "B"}

\* the answers of the model to an edited message
EditResponses == FinalResponses \cup {AIMessage("Sure", <<>>, <<>>)}

\* the slices s[:n] and s[n:]
Take(s, n) == SubSeq(s, 1, IF n < Len(s) THEN n ELSE Len(s))
Drop(s, n) == SubSeq(s, n + 1, Len(s))

\* the version sets of the agent: message index -> Message Version Set
message_versions(agent) == Get(agent, "message_versions", EmptyMap)

\* the messages behind an edited one, up to the next user message
RECURSIVE resulting_suffix(_)
resulting_suffix(following) ==
    IF following = <<>> \/ Head(following).type = "HumanMessage" THEN <<>>
    ELSE <<Head(following)>> \o resulting_suffix(Tail(following))

\* the number of edits the version sets record
RECURSIVE EditCount(_)
EditCount(sets) ==
    IF DOMAIN sets = {} THEN 0
    ELSE LET i == CHOOSE i \in DOMAIN sets : TRUE
         IN  Len(sets[i].versions) - 1
                 + EditCount([j \in DOMAIN sets \ {i} |-> sets[j]])

\* message_index refers to a user message of the live sequence
editable(messages, message_index) ==
    /\ message_index \in 0..(Len(messages) - 1)
    /\ messages[message_index + 1].type = "HumanMessage"

\* the version set of the position; on the first edit it is seeded with
\* version 0, the original content and its original suffix
version_set(agent, message_index) ==
    LET sets == message_versions(agent)
        messages == agent.current_state.messages
    IN  IF message_index \in DOMAIN sets THEN sets[message_index]
        ELSE [versions |->
                  <<[content |-> messages[message_index + 1].content,
                     suffix |->
                         resulting_suffix(Drop(messages,
                                               message_index + 1))]>>,
              current_index |-> 0]

\* (mutation of edit_message) the edit overwrites the current version
edit_in_place(agent, message_index, new_content, response) ==
    LET messages == agent.current_state.messages
    IN  IF ~editable(messages, message_index)
        THEN [agent |-> agent, raised |-> "NotFoundError"]
        ELSE LET set == version_set(agent, message_index)
                 suffix == <<response>>
                 recorded ==
                     [set EXCEPT !.versions[set.current_index + 1] =
                                     [content |-> new_content,
                                      suffix |-> suffix]]
                 live == Take(messages, message_index)
                             \o <<HumanMessage(new_content)>> \o suffix
             IN  [agent |->
                      SetKey([agent EXCEPT !.current_state.messages = live],
                             "message_versions",
                             SetKey(message_versions(agent), message_index,
                                    recorded)),
                  raised |-> None]

\* (mutation of edit_message) the index is not checked
edit_unchecked(agent, message_index, new_content, response) ==
    LET messages == agent.current_state.messages
        suffix == <<response>>
        live == Take(messages, message_index)
                    \o <<HumanMessage(new_content)>> \o suffix
    IN  [agent |-> [agent EXCEPT !.current_state.messages = live],
         raised |-> None]

\* (mutation of edit_message) the edit discards the checkpoints that hold
\* more messages than the edit keeps
edit_discarding(agent, message_index, new_content, response) ==
    LET messages == agent.current_state.messages
    IN  IF ~editable(messages, message_index)
        THEN [agent |-> agent, raised |-> "NotFoundError"]
        ELSE LET set == version_set(agent, message_index)
                 suffix == <<response>>
                 recorded ==
                     [versions |->
                          Append(set.versions,
                                 [content |-> new_content,
                                  suffix |-> suffix]),
                      current_index |-> Len(set.versions)]
                 live == Take(messages, message_index)
                             \o <<HumanMessage(new_content)>> \o suffix
                 kept == {id \in DOMAIN agent.checkpoints :
                             agent.checkpoints[id].message_count
                                 <= message_index}
             IN  [agent |->
                      SetKey([agent EXCEPT
                                 !.current_state.messages = live,
                                 !.checkpoints =
                                     [id \in kept |-> agent.checkpoints[id]],
                                 !.checkpoint_order =
                                     SelectSeq(@, LAMBDA id : id \in kept)],
                             "message_versions",
                             SetKey(message_versions(agent), message_index,
                                    recorded)),
                  raised |-> None]

\* agent.edit_message(message_index, new_content) with a model that
\* answers `response`: the version is recorded, the live sequence is cut at
\* the position and gets the new message, and the answer becomes the suffix
\* of the version
edit_message(agent, message_index, new_content, response) ==
    LET messages == agent.current_state.messages
    IN  IF ~editable(messages, message_index)
        THEN [agent |-> agent, raised |-> "NotFoundError"]
        ELSE LET set == version_set(agent, message_index)
                 suffix == <<response>>
                 recorded ==
                     [versions |->
                          Append(set.versions,
                                 [content |-> new_content,
                                  suffix |-> suffix]),
                      current_index |-> Len(set.versions)]
                 live == Take(messages, message_index)
                             \o <<HumanMessage(new_content)>> \o suffix
             IN  [agent |->
                      SetKey([agent EXCEPT !.current_state.messages = live],
                             "message_versions",
                             SetKey(message_versions(agent), message_index,
                                    recorded)),
                  raised |-> None]

\* (mutation of switch_message_version) the content is replaced and the
\* live suffix stays
switch_without_replay(agent, message_index, target_version_index) ==
    LET sets == message_versions(agent)
        messages == agent.current_state.messages
    IN  IF \/ message_index \notin DOMAIN sets
           \/ target_version_index \notin
                  0..(Len(sets[message_index].versions) - 1)
        THEN [agent |-> agent, raised |-> "NotFoundError"]
        ELSE LET set == sets[message_index]
                 target == set.versions[target_version_index + 1]
                 live == Take(messages, message_index)
                             \o <<HumanMessage(target.content)>>
                             \o Drop(messages, message_index + 1)
             IN  [agent |->
                      [agent EXCEPT
                          !.current_state.messages = live,
                          !.message_versions[message_index]
                               .current_index = target_version_index],
                  raised |-> None]

\* (mutation of switch_message_version) the suffix of the version that is
\* left is taken from the live sequence
switch_and_store(agent, message_index, target_version_index) ==
    LET sets == message_versions(agent)
        messages == agent.current_state.messages
    IN  IF \/ message_index \notin DOMAIN sets
           \/ target_version_index \notin
                  0..(Len(sets[message_index].versions) - 1)
        THEN [agent |-> agent, raised |-> "NotFoundError"]
        ELSE LET set == sets[message_index]
                 target == set.versions[target_version_index + 1]
                 left == [set EXCEPT
                             !.versions[set.current_index + 1].suffix =
                                 Drop(messages, message_index + 1),
                             !.current_index = target_version_index]
                 live == Take(messages, message_index)
                             \o <<HumanMessage(target.content)>>
                             \o target.suffix
             IN  IF target.suffix = <<>>
                 THEN [agent |-> agent, raised |-> "CorruptedStateError"]
                 ELSE [agent |->
                           [agent EXCEPT
                               !.current_state.messages = live,
                               !.message_versions[message_index] = left],
                       raised |-> None]

\* agent.switch_message_version(message_index, target_version_index): the
\* stored content and the stored suffix of the target are replayed
switch_message_version(agent, message_index, target_version_index) ==
    LET sets == message_versions(agent)
        messages == agent.current_state.messages
    IN  IF \/ message_index \notin DOMAIN sets
           \/ target_version_index \notin
                  0..(Len(sets[message_index].versions) - 1)
        THEN [agent |-> agent, raised |-> "NotFoundError"]
        ELSE LET set == sets[message_index]
                 target == set.versions[target_version_index + 1]
                 live == Take(messages, message_index)
                             \o <<HumanMessage(target.content)>>
                             \o target.suffix
             IN  IF target.suffix = <<>>
                 THEN [agent |-> agent, raised |-> "CorruptedStateError"]
                 ELSE [agent |->
                           [agent EXCEPT
                               !.current_state.messages = live,
                               !.message_versions[message_index]
                                    .current_index = target_version_index],
                       raised |-> None]

\* agent.get_conversation_with_edit_info(): the live messages with the
\* fields update_chat_display and the version buttons read
get_conversation_with_edit_info(agent) ==
    LET sets == message_versions(agent)
        messages == agent.current_state.messages
    IN  [k \in 1..Len(messages) |->
            LET has_edits == (k - 1) \in DOMAIN sets
            IN  [role |-> IF messages[k].type = "HumanMessage" THEN "user"
                          ELSE "assistant",
                 content |-> messages[k].content,
                 has_edits |-> has_edits,
                 edit_versions |->
                     IF has_edits
                     THEN [j \in 1..Len(sets[k - 1].versions) |->
                              sets[k - 1].versions[j].content]
                     ELSE <<>>,
                 current_version_index |->
                     IF has_edits THEN sets[k - 1].current_index ELSE 0]]

\* the positions a request of the tab names: those of the messages of the
\* conversation, and the one behind them
MessageIndexes(t) ==
    IF Serving(t) THEN 0..Len(AgentOf(t).current_state.messages) ELSE {}

\* a callback of the tab for the message at message_index that got its
\* agent from get_agent, left it as r.agent and ended as r.raised
EditCallback(t, r, op, message_index) ==
    /\ lock = "free"
    /\ requests[t] = Idle
    /\ Serving(t)
    /\ instances' = [instances EXCEPT ![agents[session_id[t]]] = r.agent]
    /\ last_access' = [last_access EXCEPT ![session_id[t]] = now]
    /\ outcome' = [op |-> op, ret |-> r.raised,
                   message_index |-> message_index]
    /\ UNCHANGED <<agents, session_id, now, lock, requests>>
    /\ UNCHANGED <<storeVars, agentVars, calls>>

\* process_message with a new message, as long as the conversation is short
EditTurn(t, user_message, response, decision) ==
    /\ Serving(t)
    /\ Len(AgentOf(t).current_state.messages) + 2 <= MaxEditMessages
    /\ MessageProcessed(t, user_message, response, decision)

\* process_message with an edited message (lines 663-670):
\* agent.edit_message(message_index, content)
ProcessMessageEdit(t, message_index, content, response) ==
    /\ Serving(t)
    /\ content # ""
    /\ EditCount(message_versions(AgentOf(t))) < MaxEdits
    /\ EditCallback(t, edit_message(AgentOf(t), message_index, content,
                                    response),
                    "edit_message", message_index)

\* the button of a message did not lead to a switch
no_update(agent) == [agent |-> agent, raised |-> "no_update"]

\* switch_to_previous_version, lines 888-897
SwitchToPreviousVersion(t, message_index) ==
    /\ Serving(t)
    /\ LET agent == AgentOf(t)
           history == get_conversation_with_edit_info(agent)
           msg_info == history[message_index + 1]
       IN  EditCallback(t,
               IF /\ message_index < Len(history)
                  /\ msg_info.has_edits
                  /\ msg_info.current_version_index > 0
               THEN switch_message_version(agent, message_index,
                        msg_info.current_version_index - 1)
               ELSE no_update(agent),
               "switch_to_previous_version", message_index)

\* switch_to_next_version, lines 921-930
SwitchToNextVersion(t, message_index) ==
    /\ Serving(t)
    /\ LET agent == AgentOf(t)
           history == get_conversation_with_edit_info(agent)
           msg_info == history[message_index + 1]
       IN  EditCallback(t,
               IF /\ message_index < Len(history)
                  /\ msg_info.has_edits
                  /\ msg_info.current_version_index
                         < Len(msg_info.edit_versions) - 1
               THEN switch_message_version(agent, message_index,
                        msg_info.current_version_index + 1)
               ELSE no_update(agent),
               "switch_to_next_version", message_index)

NextEdit ==
    \/ \E id \in {SessionIdList[1]} : InitializeSession(Editor, id)
    \/ \E u \in UserTexts, response \in FinalResponses,
          d \in {d \in JudgeDecisions : ~d.should_save} :
           EditTurn(Editor, u, response, d)
    \/ \E i \in MessageIndexes(Editor), content \in EditTexts,
          response \in EditResponses :
           ProcessMessageEdit(Editor, i, content, response)
    \/ \E i \in MessageIndexes(Editor) : SwitchToPreviousVersion(Editor, i)
    \/ \E i \in MessageIndexes(Editor) : SwitchToNextVersion(Editor, i)
    \/ \E args \in ConversationSaveArgs, id \in {IdList[1]} :
           SessionSave(Editor, args, id)
    \/ ClearChat(Editor)

SpecEdit == Init /\ [][NextEdit]_vars

(***************************************************************************)
(* The reset of a conversation: clear_chat, the one caller of              *)
(* clear_conversation(), among the turns and the saves of the session.     *)
(* The callback does not look whether a turn is running.                   *)
(***************************************************************************)
\* clear_chat (the callback), before, during or after a turn
ClearChatClicked ==
    /\ pc \in {"idle", "agent", "checkpoint_judge"}
    /\ ChatCleared

NextReset ==
    \/ \E u \in UserTexts : ChatStart(u)
    \/ \E response \in FinalResponses : CallModel(response)
    \/ \E d \in JudgeDecisions, id \in CheckpointIds : JudgeCheckpoint(d, id)
    \/ \E args \in ConversationSaveArgs, id \in CheckpointIds :
           SaveConversationMore(args, id)
    \/ \E id \in CheckpointIds : AgentRestoreCheckpoint(id)
    \/ CollaboratorFails
    \/ ClearChatClicked

SpecReset == Init /\ [][NextReset]_vars

(***************************************************************************)
(* The flag of the judge over several turns: current_state keeps           *)
(* should_auto_checkpoint after the turn that set it, and the next turn    *)
(* starts the graph with it.                                               *)
(***************************************************************************)
MaxPendingMessages == 4

\* chat() of a conversation of up to two turns
ChatStartNext(user_message) ==
    /\ Len(current_state.messages) + 2 <= MaxPendingMessages
    /\ ChatStarted(user_message)

NextPending ==
    \/ \E u \in UserTexts : ChatStartNext(u)
    \/ \E response \in FinalResponses : CallModel(response)
    \/ CollaboratorFails
    \/ JudgeFails
    \/ \E d \in JudgeDecisions, id \in CheckpointIds : JudgeCheckpoint(d, id)
    \/ \E args \in ConversationSaveArgs, id \in CheckpointIds :
           SaveConversation(args, id)
    \/ \E id \in CheckpointIds : AgentRestoreCheckpoint(id)
    \/ ClearConversation

SpecPending == Init /\ [][NextPending]_vars

(***************************************************************************)
(* Claims about the judge, the sessions and the edits.                     *)
(***************************************************************************)

\* C21: at the judge node the policy is given the total number of messages
\* of the conversation, which is the length of the sequence the turn
\* installs, and messages_since_last_checkpoint, which is that total minus
\* the message_count of the latest checkpoint list() shows, or the total
\* when the store has no checkpoint.
C21_JudgeCounts ==
    [][\A d \in JudgeDecisions, id \in CheckpointIds :
          JudgeCheckpoint(d, id)
              => LET request == judge_request(graph_state)
                     total == Len(current_state'.messages)
                     listed == list_checkpoints
                 IN  /\ request.message_count = total
                     /\ request.messages_since_last =
                            IF listed = <<>> THEN total
                            ELSE total - listed[Len(listed)].message_count]_vars

\* C22: session isolation: a session that create_session() makes starts
\* with no messages and an empty store, and a callback that works on the
\* session of one tab (turn, save, restore, delete, clear) leaves the
\* messages and the checkpoints of the session of every other tab as they
\* were.
C22_SessionIsolation ==
    [][/\ \A t \in Tabs, id \in SessionIds :
              (InitializeSession(t, id) /\ session_id'[t] # session_id[t])
                  => instances'[agents'[id]] = FreshAgent
       /\ \A t \in Tabs :
              SessionOperation(t)
                  => \A other \in Tabs \ {t} :
                         Serving(other)
                             => instances'[agents'[session_id'[other]]] =
                                    AgentOf(other)]_vars

\* C23: cleanup_inactive_sessions removes exactly the sessions whose last
\* access lies more than the timeout back and keeps all others as they
\* are; the last access of a session changes only when it is created and
\* when get_agent finds it, which sets it to the present time; get_agent
\* with an unknown id returns None and changes nothing.
C23_EvictsExactlyIdle ==
    [][/\ CleanupInactiveSessions
              => /\ DOMAIN agents' =
                        {id \in DOMAIN agents :
                            now - last_access[id] <= session_timeout}
                 /\ \A id \in DOMAIN agents' :
                        /\ last_access'[id] = last_access[id]
                        /\ instances'[agents'[id]] = instances[agents[id]]
       /\ \A id \in SessionIds :
              /\ GetAgent(id)
                     => IF id \in DOMAIN agents
                        THEN /\ last_access'[id] = now
                             /\ agents' = agents
                             /\ outcome'.ret # None
                        ELSE /\ outcome'.ret = None
                             /\ agents' = agents
                             /\ last_access' = last_access
                             /\ instances' = instances
              /\ CreateSession(id) => last_access'[id] = now
              /\ (/\ id \in (DOMAIN last_access) \cap (DOMAIN last_access')
                  /\ last_access'[id] # last_access[id])
                     => GetAgent(id) \/ CreateSession(id)]_vars

\* C23 witness: a cleanup has removed one session and kept another, whose
\* last access lies exactly the timeout back.
C23_Witness ==
    /\ outcome = Result("cleanup_inactive_sessions", "1")
    /\ \E id \in DOMAIN agents : now - last_access[id] = session_timeout

\* C24: registry mutual exclusion: under every interleaving of
\* create_session, get_agent, delete_session, cleanup_inactive_sessions,
\* get_session_count and get_session_info at most one request is inside a
\* with self.lock block; whenever the lock is free, agents and last_access
\* have the same keys; and no method ends with a KeyError for a key that
\* one map has and the other has not.
C24_RegistryMutualExclusion ==
    /\ \A t, u \in Tabs :
           (/\ requests[t] # Idle
            /\ requests[u] # Idle
            /\ requests[t].at # "lock"
            /\ requests[u].at # "lock") => t = u
    /\ lock = "free" => DOMAIN agents = DOMAIN last_access
    /\ \A t \in Tabs : requests[t] # Idle => requests[t].ret # "KeyError"

\* C24 witness: one request is between its write to agents and its write
\* to last_access, so that the maps differ, while the other request waits
\* for the lock.
C24_Witness ==
    /\ DOMAIN agents # DOMAIN last_access
    /\ \E t, u \in Tabs :
           /\ requests[t] # Idle
           /\ requests[u] # Idle
           /\ requests[t].at = "last_access"
           /\ requests[u].at = "lock"

\* the live sequence and the version sets of the agent of the tab that edits
Live == AgentOf(Editor).current_state.messages
Sets == message_versions(AgentOf(Editor))

\* the step is an edit of the tab; the position it names
Edit == outcome'.op = "edit_message"

\* the step is a switch by one of the two version buttons
Switched ==
    /\ outcome'.op \in {"switch_to_previous_version",
                        "switch_to_next_version"}
    /\ outcome'.ret = None

\* position i was edited to "A" and then to "B"
EditedTwice(i) ==
    /\ i \in DOMAIN Sets
    /\ Len(Sets[i].versions) = 3
    /\ Sets[i].versions[2].content = "A"
    /\ Sets[i].versions[3].content = "B"

\* after the step the live sequence shows version k of position i: the
\* stored content, followed by the stored suffix and nothing else
Shows(i, k) ==
    /\ Len(Live') > i
    /\ Live'[i + 1].content = Sets[i].versions[k + 1].content
    /\ Drop(Live', i + 1) = Sets[i].versions[k + 1].suffix

\* C25 (as stated): after edit "A" and edit "B" at position i, switching to
\* version 0 shows the content "A" with the suffix generated for it, and
\* switching to version 1 shows the suffix of "B"
C25_VersionZeroIsFirstEdit ==
    [][Switched
          => LET i == outcome'.message_index
             IN  EditedTwice(i)
                     => /\ Sets'[i].current_index = 0
                            => /\ Live'[i + 1].content = "A"
                               /\ Drop(Live', i + 1)
                                      = Sets[i].versions[2].suffix
                        /\ Sets'[i].current_index = 1
                            => Drop(Live', i + 1)
                                   = Sets[i].versions[3].suffix]_vars

\* C25 (amended): after edit "A" and edit "B" at position i, switching to
\* version 1 shows the content "A" followed by the suffix stored when "A"
\* was edited, switching to version 2 shows "B" with the suffix of "B", and
\* switching to version 0 shows the content from before the first edit; the
\* stored suffix is replayed, no new answer is generated
C25_SwitchReplaysEdits ==
    [][Switched
          => LET i == outcome'.message_index
             IN  EditedTwice(i)
                     => /\ Sets'[i].current_index = 1
                            => Live'[i + 1].content = "A" /\ Shows(i, 1)
                        /\ Sets'[i].current_index = 2
                            => Live'[i + 1].content = "B" /\ Shows(i, 2)
                        /\ Sets'[i].current_index = 0
                            => /\ Live'[i + 1].content \notin EditTexts
                               /\ Shows(i, 0)]_vars

\* C25: the version buttons have led back from "B" to "A"
C25_Witness ==
    /\ Serving(Editor)
    /\ outcome.op = "switch_to_previous_version"
    /\ outcome.ret = None
    /\ 0 \in DOMAIN Sets
    /\ Len(Sets[0].versions) = 3
    /\ Sets[0].versions[2].content = "A"
    /\ Sets[0].versions[3].content = "B"
    /\ Sets[0].versions[2].suffix # Sets[0].versions[3].suffix
    /\ Sets[0].current_index = 1
    /\ Live = <<HumanMessage("A")>> \o Sets[0].versions[2].suffix

\* C26: the current_index of every version set is an index of its version
\* list, and a switch (by the previous or the next button) changes nothing
\* but the current_index of its position and the live sequence from that
\* position on: the content and the suffix of every stored version stay
C26_SwitchIsPointerChange ==
    /\ [](Serving(Editor)
             => \A i \in DOMAIN Sets :
                    Sets[i].current_index
                        \in 0..(Len(Sets[i].versions) - 1))
    /\ [][Switched
             => LET i == outcome'.message_index
                IN  /\ DOMAIN Sets' = DOMAIN Sets
                    /\ \A j \in DOMAIN Sets :
                          /\ Sets'[j].versions = Sets[j].versions
                          /\ j # i
                              => Sets'[j].current_index
                                     = Sets[j].current_index
                    /\ Take(Live', i) = Take(Live, i)
                    /\ Shows(i, Sets'[i].current_index)]_vars

\* C26: the next button has switched the version of one position while
\* another position has a version set as well
C26_Witness ==
    /\ Serving(Editor)
    /\ outcome.op = "switch_to_next_version"
    /\ outcome.ret = None
    /\ DOMAIN Sets = {0, 2}
    /\ Sets[0].current_index = 1
    /\ Len(Live) = 2

\* the messages behind position i up to the next user message (or the end)
OriginalSuffix(messages, i, suffix) ==
    /\ suffix = SubSeq(messages, i + 2, i + 1 + Len(suffix))
    /\ \A k \in 1..Len(suffix) : suffix[k].type # "HumanMessage"
    /\ \/ i + 1 + Len(suffix) = Len(messages)
       \/ messages[i + 2 + Len(suffix)].type = "HumanMessage"

\* C27: the first edit of a user message creates a version set of two
\* versions, version 0 with the original content and the original suffix
\* and version 1 with the new content and the new answer, and points at
\* version 1; every later edit appends one version, points at it and leaves
\* the versions before it as they were
C27_EditForks ==
    [][(Edit /\ outcome'.ret = None)
          => LET i == outcome'.message_index
                 new == [content |-> Live'[i + 1].content,
                         suffix |-> Drop(Live', i + 1)]
             IN  /\ i \in DOMAIN Sets'
                 /\ \A j \in DOMAIN Sets : j # i => Sets'[j] = Sets[j]
                 /\ Take(Live', i) = Take(Live, i)
                 /\ Len(Live') = i + 2
                 /\ new.content \in EditTexts
                 /\ Live'[i + 2] \in EditResponses
                 /\ IF i \in DOMAIN Sets
                    THEN /\ Sets'[i].versions
                                = Append(Sets[i].versions, new)
                         /\ Sets'[i].current_index = Len(Sets[i].versions)
                    ELSE /\ Len(Sets'[i].versions) = 2
                         /\ Sets'[i].versions[1].content
                                = Live[i + 1].content
                         /\ OriginalSuffix(Live, i,
                                Sets'[i].versions[1].suffix)
                         /\ Sets'[i].versions[2] = new
                         /\ Sets'[i].current_index = 1]_vars

\* C27: a message of a longer conversation was edited for the first time,
\* and a message was edited for the second time
C27_Witness ==
    /\ Serving(Editor)
    /\ outcome.op = "edit_message"
    /\ outcome.ret = None
    /\ DOMAIN Sets = {0, 2}
    /\ Len(Sets[0].versions) = 2
    /\ Sets[0].versions[1] =
           [content |-> "Hello",
            suffix |-> <<AIMessage("Hi there", <<>>, <<>>)>>]
    /\ Len(Sets[2].versions) = 2
    /\ Sets[2].current_index = 1
    /\ Len(Live) = 4

\* C28: an edit whose index is outside the live sequence, or is the index
\* of an assistant message, ends with NotFoundError and leaves the live
\* sequence and the version sets as they were
C28_EditNotFound ==
    [][Edit
          => LET i == outcome'.message_index
             IN  (i >= Len(Live) \/ Live[i + 1].type = "AIMessage")
                     => /\ outcome'.ret = "NotFoundError"
                        /\ Live' = Live
                        /\ Sets' = Sets]_vars

\* C28: an edit of a conversation with version sets ended with
\* NotFoundError
C28_Witness ==
    /\ Serving(Editor)
    /\ outcome.op = "edit_message"
    /\ outcome.ret = "NotFoundError"
    /\ Len(Live) = 4
    /\ Sets # EmptyMap

\* C29: an edit and a switch leave the store as it was: the order list, and
\* the name, the message_count and the stored messages of every checkpoint
C29_EditsKeepCheckpoints ==
    [][(Edit \/ Switched)
          => /\ AgentOf(Editor)'.checkpoint_order
                    = AgentOf(Editor).checkpoint_order
             /\ AgentOf(Editor)'.checkpoints
                    = AgentOf(Editor).checkpoints]_vars

\* C29: the conversation of which a checkpoint exists was cut by an edit
C29_Witness ==
    /\ Serving(Editor)
    /\ outcome.op = "edit_message"
    /\ outcome.ret = None
    /\ Len(Live) = 2
    /\ AgentOf(Editor).checkpoint_order # <<>>
    /\ \E id \in DOMAIN AgentOf(Editor).checkpoints :
           AgentOf(Editor).checkpoints[id].message_count = 4

\* C30: a reset of the conversation empties the store as well: after it the
\* live sequence is empty, the list of checkpoints is empty and there is no
\* latest checkpoint (the judge counts from 0), so that the judge of a turn
\* that meets the store as the reset left it is told messages_since_last =
\* the number of messages
C30_ResetEmptiesStore ==
    /\ [][ClearChatClicked
             => /\ current_state'.messages = <<>>
                /\ list_checkpoints' = <<>>
                /\ checkpoints' = EmptyMap
                /\ get_latest_checkpoint' = None
                /\ last_checkpoint_count' = 0]_vars
    /\ []((pc = "checkpoint_judge" /\ checkpoint_order = <<>>)
             => judge_request(graph_state).messages_since_last
                    = Len(graph_state.messages))

\* C30: the chat was cleared while a turn was at the judge, and the judge
\* meets the empty store
C30_Witness ==
    /\ outcome = Result("clear_chat", "None")
    /\ pc = "checkpoint_judge"
    /\ Len(graph_state.messages) = 2
    /\ current_state.messages = <<>>
    /\ list_checkpoints = <<>>

(***************************************************************************)
(* Claims about the turn, the pending decision, the names, the registry    *)
(* and the judge's context.                                                *)
(***************************************************************************)

\* the step in which chat() installs the result of the graph (line 211)
TurnCompletes ==
    /\ pc = "checkpoint_judge"
    /\ pc' = "idle"
    /\ outcome'.ret \in {"response", "TypeError"}

\* the messages a turn appended are well formed: a user message first, then
\* responses of the model, each one that asks for tools followed by the
\* result of every call and by another response, the last one a response
\* that asks for no tool
WellFormedTurn(appended) ==
    /\ Len(appended) >= 2
    /\ appended[1].type = "HumanMessage"
    /\ \A k \in 2..Len(appended) :
          appended[k].type \in {"AIMessage", "ToolMessage"}
    /\ \A k \in 2..Len(appended) :
          (appended[k].type = "AIMessage" /\ appended[k].tool_calls # <<>>)
              => LET n == Len(appended[k].tool_calls)
                 IN  /\ k + n + 1 <= Len(appended)
                     /\ \A j \in 1..n :
                           /\ appended[k + j].type = "ToolMessage"
                           /\ appended[k + j].tool_call_id
                                  = appended[k].tool_calls[j]
                     /\ appended[k + n + 1].type = "AIMessage"
    /\ appended[Len(appended)].type = "AIMessage"
    /\ appended[Len(appended)].tool_calls = <<>>

\* C31: a completed turn only appends: the messages from before the turn
\* are a prefix of those after it, the first appended message is the user
\* message with the text of the call, every appended response with tool
\* calls is followed by the results and another response, and the last
\* appended message is a response without tool calls
C31_TurnOnlyAppends ==
    /\ [][\A u \in UserTexts :
             ChatStart(u)
                 => current_state'.messages
                        = Append(current_state.messages, HumanMessage(u))]_vars
    /\ [][TurnCompletes
             => LET before == turn.before
                    after == current_state'.messages
                    appended == SubSeq(after, Len(before) + 1, Len(after))
                IN  /\ Len(after) >= Len(before)
                    /\ SubSeq(after, 1, Len(before)) = before
                    /\ appended[1] = current_state.messages[Len(before) + 1]
                    /\ WellFormedTurn(appended)]_vars

\* C31: a turn with a tool round was completed
C31_Witness ==
    /\ pc = "idle"
    /\ outcome = Result("chat", "response")
    /\ Len(current_state.messages) = 4
    /\ current_state.messages[2] \in ToolRequests
    /\ current_state.messages[3].type = "ToolMessage"
    /\ current_state.messages[4] \in FinalResponses

\* the decision an earlier turn left in the live state says save
PendingSave == Get(current_state, "should_auto_checkpoint", FALSE)

\* C32: the decision of the judge is used once: a turn calls
\* _create_auto_checkpoint at most once, when it ends, and only if the judge
\* of that same turn said save; a decision that an earlier turn left in the
\* state leads to no checkpoint in a later turn, in a restore or in a clear
C32_DecisionConsumedOnce ==
    /\ [][\A d \in JudgeDecisions, id \in CheckpointIds :
             JudgeCheckpoint(d, id)
                 => /\ (outcome'.ret = "TypeError"
                            \/ checkpoint_order' # checkpoint_order)
                        => d.should_save
                    /\ Len(checkpoint_order') <= Len(checkpoint_order) + 1]_vars
    /\ [][(\/ \E u \in UserTexts : ChatStartNext(u)
           \/ \E response \in FinalResponses : CallModel(response)
           \/ CollaboratorFails
           \/ JudgeFails
           \/ \E id \in CheckpointIds : AgentRestoreCheckpoint(id)
           \/ ClearConversation)
             => /\ Len(checkpoint_order') <= Len(checkpoint_order)
                /\ DOMAIN checkpoints' \subseteq DOMAIN checkpoints
                /\ outcome'.ret # "TypeError"]_vars

\* C32: the second turn of a conversation is at the judge, and the graph
\* was started with the save decision of the first turn
C32_Witness ==
    /\ pc = "checkpoint_judge"
    /\ PendingSave
    /\ Get(graph_state, "should_auto_checkpoint", FALSE)
    /\ Len(turn.before) = 2
    /\ Len(graph_state.messages) = 4

(***************************************************************************)
(* A turn whose response asks for several tools at once.  ToolNode appends *)
(* one ToolMessage for each call, the checkpoint counts them               *)
(* (message_count, checkpoint_manager.py:83), and restore_checkpoint       *)
(* rebuilds the conversation without them (agent.py:318-335).              *)
(***************************************************************************)
\* the longest live sequence a turn of this part starts from
MaxLiveAtStart == 3

\* a response of the model with three tool calls
ParallelToolRequest ==
    AIMessage("", <<"tool_calls">>, <<"call_1", "call_2", "call_3">>)

\* chat(), from a conversation short enough
ChatStartTools(user_message) ==
    /\ Len(current_state.messages) <= MaxLiveAtStart
    /\ ChatStarted(user_message)

\* _call_model, the model asking for its tools in the first round only
CallModelParallel ==
    /\ pc = "agent"
    /\ turn.rounds = 0
    /\ CallModel(ParallelToolRequest)

NextTools ==
    \/ \E u \in UserTexts : ChatStartTools(u)
    \/ \E response \in FinalResponses : CallModel(response)
    \/ CallModelParallel
    \/ CallTools
    \/ \E d \in JudgeDecisions, id \in CheckpointIds : JudgeCheckpoint(d, id)
    \/ \E args \in ConversationSaveArgs, id \in CheckpointIds :
           SaveConversation(args, id)
    \/ \E id \in CheckpointIds : AgentRestoreCheckpoint(id)
    \/ \E id \in CheckpointIds : AgentDeleteCheckpoint(id)

SpecTools == Init /\ [][NextTools]_vars

\* C33: at the judge node, the number of messages since the latest
\* checkpoint that is handed to the judge is never negative: the latest
\* checkpoint's message_count is at most the length of the turn's sequence
C33_SinceLastNeverNegative ==
    pc = "checkpoint_judge"
        => judge_request(graph_state).messages_since_last >= 0

\* a name that save_checkpoint makes up (line 71)
IsDefaultName(name) ==
    \E N \in 1..(Cardinality(CheckpointIds) + 1) :
        name = "Checkpoint " \o ToString(N)

\* C34: whatever saves without a name, deletes and restores were made, no
\* two checkpoints that are in the store at the same time carry the same
\* default name "Checkpoint N"
C34_DefaultNamesDistinct ==
    \A a \in DOMAIN checkpoints :
        IsDefaultName(checkpoints[a].name)
            => \A b \in DOMAIN checkpoints \ {a} :
                   checkpoints[b].name # checkpoints[a].name

\* the messages the store holds for a checkpoint
StoredMessages(id) == heap[checkpoints[id].state].messages

\* C35: what restore returns is independent of the store: appending to or
\* removing from the returned sequence changes no stored checkpoint, and a
\* restore(id) made later returns the sequence the store holds for id, in an
\* object of its own
C35_RestoredCopyIndependent ==
    /\ [][outcome'.op \in {"append", "pop"}
              => /\ checkpoints' = checkpoints
                 /\ \A id \in DOMAIN checkpoints :
                        StoredMessages(id)' = StoredMessages(id)]_vars
    /\ [][\A id \in CheckpointIds :
              (RestoreCheckpoint(id) /\ outcome'.ret = id)
                  => /\ heap'[held'].messages = StoredMessages(id)
                     /\ heap'[held'].messages = saved_live[id]
                     /\ id \in DOMAIN checkpoints'
                            => held' # checkpoints'[id].state]_vars

\* C35 witness: restore has returned the messages of a checkpoint that is
\* still in the store, as an object different from the stored one
C35_Witness ==
    /\ outcome.op = "restore_checkpoint"
    /\ outcome.ret \in DOMAIN checkpoints
    /\ held # checkpoints[outcome.ret].state
    /\ heap[held].messages = StoredMessages(outcome.ret)
    /\ Len(heap[held].messages) = MaxCallerMessages

(***************************************************************************)
(* get_or_create_agent while other requests delete and evict.  The method  *)
(* holds no lock of its own: it calls get_agent, create_session and        *)
(* get_agent again, each of which takes self.lock for its body and gives   *)
(* it back, so each call is one step here, taken when the lock is free,    *)
(* and other threads run between the steps.  requests[t].ret is the agent  *)
(* the method holds, 0 for None.                                           *)
(***************************************************************************)
NoAgent == 0

\* a request calls get_or_create_agent(session_id)
GetOrCreateCall(t, id) ==
    /\ requests[t] = Idle
    /\ Goto(t, [op |-> "get_or_create_agent", id |-> id, time |-> 0,
                at |-> IF id = None THEN "create" ELSE "get",
                todo |-> <<>>, ret |-> NoAgent])
    /\ UNCHANGED <<agents, last_access, instances, now, lock, outcome>>

\* lines 77-79: agent = self.get_agent(session_id); if agent: return
GetOrCreateGet(t) ==
    /\ At(t, "get_or_create_agent", "get")
    /\ lock = "free"
    /\ IF requests[t].id \in DOMAIN agents
       THEN /\ last_access' = SetKey(last_access, requests[t].id, now)
            /\ Goto(t, [requests[t] EXCEPT
                           !.at = "return",
                           !.ret = agents[requests[t].id]])
       ELSE /\ Goto(t, [requests[t] EXCEPT !.at = "create"])
            /\ UNCHANGED last_access
    /\ UNCHANGED <<agents, instances, now, lock, outcome>>

\* line 82: new_session_id = self.create_session()
GetOrCreateCreate(t, new_id) ==
    /\ At(t, "get_or_create_agent", "create")
    /\ lock = "free"
    /\ LET r == create_session(agents, last_access, instances, new_id, now)
       IN  /\ agents' = r.agents
           /\ instances' = r.instances
           /\ last_access' = r.last_access
    /\ Goto(t, [requests[t] EXCEPT !.at = "get_new", !.id = new_id])
    /\ UNCHANGED <<now, lock, outcome>>

\* line 83: agent = self.get_agent(new_session_id)
GetOrCreateGetNew(t) ==
    /\ At(t, "get_or_create_agent", "get_new")
    /\ lock = "free"
    /\ IF requests[t].id \in DOMAIN agents
       THEN /\ last_access' = SetKey(last_access, requests[t].id, now)
            /\ Goto(t, [requests[t] EXCEPT
                           !.at = "return",
                           !.ret = agents[requests[t].id]])
       ELSE /\ Goto(t, [requests[t] EXCEPT !.at = "return",
                                           !.ret = NoAgent])
            /\ UNCHANGED last_access
    /\ UNCHANGED <<agents, instances, now, lock, outcome>>

\* lines 79 and 84: return session_id, agent
GetOrCreateReturn(t) ==
    /\ At(t, "get_or_create_agent", "return")
    /\ outcome' = [op |-> "get_or_create_agent", ret |-> requests[t].id,
                   agent |-> requests[t].ret]
    /\ Goto(t, Idle)
    /\ UNCHANGED <<agents, last_access, instances, now, lock>>

NextGetOrCreate ==
    \/ RegistryTick
    \/ \E t \in Tabs, id \in SessionIds \cup {None} : GetOrCreateCall(t, id)
    \/ \E t \in Tabs : GetOrCreateGet(t)
    \/ \E t \in Tabs, new_id \in SessionIds : GetOrCreateCreate(t, new_id)
    \/ \E t \in Tabs : GetOrCreateGetNew(t)
    \/ \E t \in Tabs : GetOrCreateReturn(t)
    \/ \E t \in Tabs, id \in SessionIds :
           RegistryCall(t, "delete_session", id)
    \/ \E t \in Tabs : RegistryCall(t, "cleanup_inactive_sessions", None)
    \/ \E t \in Tabs : Acquire(t)
    \/ \E t \in Tabs : Release(t)
    \/ \E t \in Tabs : DeleteAgents(t)
    \/ \E t \in Tabs : DeleteLastAccess(t)
    \/ \E t \in Tabs : CleanupScan(t)
    \/ \E t \in Tabs : CleanupDeleteAgents(t)
    \/ \E t \in Tabs : CleanupDeleteLastAccess(t)

SpecGetOrCreate == Init /\ [][NextGetOrCreate]_vars

\* C36: when get_or_create_agent returns (session_id, agent), the agent is
\* not None and it is the agent the registry holds under session_id at that
\* moment, whatever deletes and evictions run beside it
C36_ReturnsRegisteredAgent ==
    \A t \in Tabs :
        At(t, "get_or_create_agent", "return")
            => /\ requests[t].ret # NoAgent
               /\ requests[t].id \in DOMAIN agents
               /\ agents[requests[t].id] = requests[t].ret

\* C37: create_session() returns an id that was not in the registry: the
\* number of sessions grows by exactly one, and every session that was
\* registered is still registered, with the agent it had and with that
\* agent's conversation and checkpoints
C37_CreateAddsOneSession ==
    [][\A t \in Tabs, new_id \in SessionIds :
          (InitializeSession(t, new_id) /\ ~Serving(t))
              => /\ new_id \notin DOMAIN agents
                 /\ Cardinality(DOMAIN agents') =
                        Cardinality(DOMAIN agents) + 1
                 /\ \A s \in DOMAIN agents :
                        /\ s \in DOMAIN agents'
                        /\ instances'[agents'[s]] = instances[agents[s]]]_vars

\* no message of the sequence is a system message
NoSystemMessage(messages) ==
    \A i \in 1..Len(messages) : messages[i].type # "SystemMessage"

\* C38: whenever the model is called, the list it gets is the system
\* message followed by the sequence of the turn, with no other system
\* message in it; and the system message is in no stored sequence: not in
\* the live state, not in the state of the graph, not in a checkpoint, and
\* the history shows every stored message but the tool results
C38_SystemMessageNotStored ==
    /\ pc = "agent"
           => LET input == model_input(graph_state.messages)
              IN  /\ Head(input) = SystemMessage(system_prompt)
                  /\ Tail(input) = graph_state.messages
                  /\ NoSystemMessage(Tail(input))
    /\ NoSystemMessage(current_state.messages)
    /\ NoSystemMessage(graph_state.messages)
    /\ \A id \in DOMAIN checkpoints :
           NoSystemMessage(heap[checkpoints[id].state].messages)
    /\ Len(get_conversation_history(current_state.messages)) =
           Len(SelectSeq(current_state.messages,
                         LAMBDA msg : msg.type # "ToolMessage"))

\* C38 witness: the model is called a second time in a turn, after the
\* results of the tools, while the store holds a checkpoint
C38_Witness ==
    /\ pc = "agent"
    /\ Len(graph_state.messages) = 3
    /\ graph_state.messages[3].type = "ToolMessage"
    /\ Len(model_input(graph_state.messages)) = 4
    /\ checkpoint_order # <<>>

(***************************************************************************)
(* What the judge is shown of the conversation.  _judge_checkpoint takes   *)
(* the last messages of the turn's sequence, keeps the user's and the      *)
(* assistant's with role and content, and _format_conversation writes one  *)
(* line for each.  Contents are strings, so that their lengths and the cut *)
(* are computed.                                                           *)
(***************************************************************************)
\* messages[-8:], agent.py:116
recent_window == 8
\* len(content) > 500 and content[:500], checkpoint_judge_agent.py:143-144
max_response_chars == 500

\* the longest conversation of this part
MaxContextMessages == 10

\* the string of n characters c
RECURSIVE Repeat(_, _)
Repeat(c, n) ==
    IF n = 0 THEN ""
    ELSE LET half == Repeat(c, n \div 2)
         IN  half \o half \o (IF n % 2 = 1 THEN c ELSE "")

\* texts of the user and responses of the model, short and long
ContextUserTexts == {"Hello", Repeat("u", max_response_chars + 1)}
ContextResponses ==
    {AIMessage("Hi there", <<>>, <<>>),
     AIMessage(Repeat("a", max_response_chars), <<>>, <<>>),
     AIMessage(Repeat("a", max_response_chars + 1), <<>>, <<>>)}

\* role and content of the user's and the assistant's messages (lines
\* 117-120)
role_and_content(messages) ==
    LET kept == SelectSeq(messages,
                          LAMBDA msg : msg.type \in {"HumanMessage",
                                                     "AIMessage"})
    IN  [i \in 1..Len(kept) |->
            [role |-> IF kept[i].type = "HumanMessage" THEN "user"
                      ELSE "assistant",
             content |-> kept[i].content]]

\* _judge_checkpoint, lines 115-120: role and content of the user's and the
\* assistant's messages among messages[-8:]
recent_messages(messages) ==
    LET first == IF Len(messages) > recent_window
                 THEN Len(messages) - recent_window + 1 ELSE 1
    IN  role_and_content(SubSeq(messages, first, Len(messages)))

\* _format_conversation, lines 143-144
truncate(content) ==
    IF Len(content) > max_response_chars
    THEN SubSeq(content, 1, max_response_chars) \o "..."
    ELSE content

\* _format_conversation, lines 135-145: the lines of the conversation text,
\* each with the content as it is sent
format_lines(recent) ==
    LET kept == SelectSeq(recent,
                          LAMBDA msg : msg.role \in {"user", "assistant"})
    IN  [i \in 1..Len(kept) |->
            IF kept[i].role = "user"
            THEN [role |-> "user", prefix |-> "USER: ",
                  content |-> kept[i].content]
            ELSE [role |-> "assistant", prefix |-> "ASSISTANT: ",
                  content |-> truncate(kept[i].content)]]

\* _format_conversation: "\n\n".join(lines)
RECURSIVE format_conversation(_)
format_conversation(lines) ==
    IF lines = <<>> THEN ""
    ELSE Head(lines).prefix \o Head(lines).content
             \o (IF Tail(lines) = <<>> THEN ""
                 ELSE "\n\n" \o format_conversation(Tail(lines)))

\* chat() of a conversation of up to MaxContextMessages messages
ChatStartContext(user_message) ==
    /\ Len(current_state.messages) + 2 <= MaxContextMessages
    /\ ChatStarted(user_message)

\* the node of the judge, with the decision not to save
JudgeContext(decision) ==
    /\ ~decision.should_save
    /\ JudgeCheckpoint(decision, IdList[1])

NextContext ==
    \/ \E u \in ContextUserTexts : ChatStartContext(u)
    \/ \E response \in ContextResponses \cup ToolRequests :
           CallModel(response)
    \/ CallTools
    \/ \E d \in JudgeDecisions : JudgeContext(d)

SpecContext == Init /\ [][NextContext]_vars

\* the messages of the turn's sequence the judge may be shown: the user's
\* and the assistant's among the last eight
Shown ==
    LET n == Len(graph_state.messages)
    IN  SelectSeq(SubSeq(graph_state.messages,
                         IF n > 8 THEN n - 7 ELSE 1, n),
                  LAMBDA msg : msg.type # "ToolMessage")

\* the lines the judge is sent at the judge node
Sent == format_lines(recent_messages(graph_state.messages))

\* the content cut to 500 characters and an ellipsis
Cut(content) ==
    IF Len(content) <= 500 THEN content
    ELSE SubSeq(content, 1, 500) \o "..."

\* C39: the judge is sent the user's and the assistant's messages among the
\* last 8 messages of the sequence, and the content of every one of them,
\* the user's as well as the assistant's, is cut to at most 500 characters
\* plus an ellipsis
C39_ContextCutsEvery ==
    pc = "checkpoint_judge"
        => /\ Len(Sent) = Len(Shown)
           /\ \A i \in 1..Len(Sent) :
                  /\ Sent[i].content = Cut(Shown[i].content)
                  /\ Len(Sent[i].content) <= 503

=============================================================================
